---------------------------- MODULE Spec2Model ----------------------------
(***************************************************************************)
(* hyprland-minimizer: the per-application daemon that keeps one window    *)
(* behind a tray icon.                                                     *)
(*                                                                         *)
(* Spec      several invocations of the program for the same application   *)
(*           identifier, interleaved at every file-system call, process    *)
(*           signal and await point of main (src/src/main.rs) and of the   *)
(*           lock module (src/src/lock.rs).  The compositor answers the    *)
(*           queries of main nondeterministically.                         *)
(* FairSpec  Spec with weak fairness of the exit path of every process.     *)
(* SpecToggle  handle_window_toggle (src/src/hyprland.rs) run again and    *)
(*           again on a compositor that starts in any placement of its     *)
(*           windows; every query and dispatch command may fail.           *)
(***************************************************************************)
EXTENDS Integers, Sequences, FiniteSets, TLC

\* Number of invocations of the program for the one application identifier.
NProcs == 2

\* The process identifiers of the invocations.
Procs == 1..NProcs

\* Lock file states beside "holds the text of a pid": no file at the path,
\* and a file whose text does not parse as a pid (File::create leaves it empty).
Absent == -1
Unparsable == 0

\* Number of windows the compositor knows, and their addresses.
NWindows == 2

Addrs == 1..NWindows

\* Number of ordinary workspaces; their ids are 1..NWorkspaces.
NWorkspaces == 2

\* Number of toggles a behaviour of SpecToggle runs.
MaxToggles == 3

\* Number of tray and menu method calls a behaviour of SpecDaemon makes,
\* and the longest list of events or ids a batched call carries.
MaxCalls == 2

MaxBatch == 2

\* Number of SIGUSR1 signals that reach the daemon in a behaviour of
\* SpecListener.
MaxSignals == 3

\* Number of NameOwnerChanged signals of the bus in a behaviour of SpecWatch.
MaxChanges == 3

\* The largest launch_timeout a configuration of SpecLaunch sets, in seconds.
MaxTimeout == 6

\* The class the daemon is configured for, and the class of any other window.
ManagedClass == "app"

Classes == {ManagedClass, "other"}

\* Workspace ids below 0 are hidden (special) workspaces: the one named
\* after the managed class, and one that is not.  A window with no workspace
\* (Closed) is not in the client list.
HiddenWs == -1
OtherSpecialWs == -2
Closed == 0

VARIABLES
    token,      \* the lock file of the application: Absent, Unparsable or a pid
    pc,         \* pc[p]: where process p stands in main / acquire_lock / release_lock
    old_pid,    \* old_pid[p]: the pid this call of acquire_lock parsed from the lock file (0: none)
    fdOnPath,   \* fdOnPath[p]: the file p opened with File::create is still the one at the path
    exitBy,     \* exitBy[p]: the exit path p has taken ("none" while it has taken none)
    sigSent,    \* sigSent[p]: kill -USR1 commands run by p's acquire_lock
    hyprUsed,   \* hyprUsed[p]: p has run a hyprctl query or dispatch
    pending,    \* pending[p]: a SIGUSR1 is waiting in p's signal stream
    permit,     \* permit[p]: exit_notify holds a stored notification
    intr,       \* intr[p]: an interrupt signal reached p's ctrl_c listener
    pollOn,     \* pollOn[p]: the window liveness task is in its loop
    lastPoll,   \* lastPoll[p]: what the last poll of the running liveness task found
    comp,       \* the compositor: placement of the windows, active workspace, focus
    classOf,    \* classOf[a]: the class of window a
    tg,         \* what the last handle_window_toggle did
    releases,   \* releases[p]: calls of release_lock made by p
    win,        \* window_info: the address and workspace main captured at its start
    bus,        \* what the last call of a tray or menu method did
    lis,        \* the toggles of the daemon call by call: begun, in flight, log
    launch_timeout, \* app_config.launch_timeout: <<>> for None, <<T>> for Some(T)
    attempt,    \* the iterations the launch-wait loop has run
    failedPolls, \* how many of them had a client-list query that failed
    launch_in_background, \* app_config.launch_in_background: <<>> or <<b>>
    place,      \* what the initial placement of main did
    watch       \* the re-registration task: its state, the owner changes
                \* waiting in its stream, the re-announce attempts it made

\* The state of the invocations and of the lock file.
procVars == <<token, pc, old_pid, fdOnPath, exitBy, sigSent, hyprUsed, pending,
              permit, intr, pollOn, lastPoll, releases>>

\* The state of the compositor and of the toggle.
compVars == <<comp, classOf, tg>>

\* The state of the tray server.
trayVars == <<win, bus>>

\* The listener call by call, and the launch-wait loop poll by poll.
stepVars == <<lis, launch_timeout, attempt, failedPolls>>

\* The configured placement of a launched window, the initial placement,
\* and the re-registration task.
startVars == <<launch_in_background, place, watch>>

vars == <<token, pc, old_pid, fdOnPath, exitBy, sigSent, hyprUsed, pending,
          permit, intr, pollOn, lastPoll, comp, classOf, tg, releases, win, bus,
          lis, launch_timeout, attempt,
          failedPolls, launch_in_background, place, watch>>

\* Positions inside acquire_lock.
AcqPcs == {"exists", "read", "probe", "signal", "remove", "create", "write"}

\* Positions of main between the claim of the lock and the installation of
\* the SIGUSR1 stream.
StartupPcs == {"clients", "launch", "wait", "place_existing", "place_new",
               "connect", "register", "sigsetup"}

\* Positions inside release_lock.
RelPcs == {"rel_exists", "rel_read", "rel_remove"}

\* A process exists from its invocation to its exit.
Alive(p) == pc[p] \notin {"idle", "exited"}

\* acquire_lock returned Ok(None) to p, and p has not exited.
IsDaemon(p) == pc[p] \in StartupPcs \cup {"select"} \cup RelPcs

\* tokio's signal(SignalKind::user_defined1()) has replaced the default
\* disposition of SIGUSR1 (which terminates the process).
HasSigusr1Handler(p) ==
    \/ pc[p] = "select"
    \/ pc[p] \in RelPcs /\ exitBy[p] = "normal"

\* tokio's ctrl_c() has replaced the default disposition of the interrupt
\* signal: main has polled its select.
HasSigintHandler(p) ==
    \/ pc[p] = "select"
    \/ pc[p] \in RelPcs /\ exitBy[p] = "normal"

\* The exit status of each exit path.
ExitCode(r) == IF r \in {"already", "normal"} THEN 0 ELSE 1

InitProcs ==
    /\ token = Absent
    /\ pc = [p \in Procs |-> "idle"]
    /\ old_pid = [p \in Procs |-> 0]
    /\ fdOnPath = [p \in Procs |-> FALSE]
    /\ exitBy = [p \in Procs |-> "none"]
    /\ sigSent = [p \in Procs |-> 0]
    /\ hyprUsed = [p \in Procs |-> FALSE]
    /\ pending = [p \in Procs |-> FALSE]
    /\ permit = [p \in Procs |-> FALSE]
    /\ intr = [p \in Procs |-> FALSE]
    /\ pollOn = [p \in Procs |-> FALSE]
    /\ lastPoll = [p \in Procs |-> "none"]
    /\ releases = [p \in Procs |-> 0]

\* No toggle has run.
NoToggle == [n |-> 0, result |-> "none", case |-> "none", found |-> 0,
             a |-> 0, queries |-> <<>>, answers |-> <<>>, issued |-> <<>>,
             run |-> 0]

\* main has captured no window; no tray or menu method was called.
NoWindow == [address |-> 0, workspace |-> 0]

NoCall == [n |-> 0, method |-> "none", at |-> "none", events |-> <<>>,
           issued |-> <<>>, failed |-> 0, fired |-> 0, total |-> 0,
           trace |-> <<>>, props |-> <<>>, reply |-> "none"]

\* Main has not placed its window.
NoPlacement == [mode |-> "none", issued |-> <<>>, failed |-> 0]

\* The re-registration task is not spawned.
NoWatch == [task |-> "none", queue |-> <<>>, changes |-> 0, due |-> 0,
            attempts |-> 0, failed |-> 0, last |-> "none"]

\* No toggle has begun and no signal has arrived.
NoListener == [started |-> 0, left |-> <<>>, calls |-> <<>>, arrived |-> 0,
               upto |-> <<>>, queued |-> 0]

\* Spec leaves the compositor out: the queries of main are answered
\* nondeterministically there.
Init ==
    /\ InitProcs
    /\ comp = [ws |-> [a \in Addrs |-> Closed], active |-> 1, shown |-> 0,
               focus |-> 0, centered |-> {}, top |-> 0]
    /\ classOf = [a \in Addrs |-> ManagedClass]
    /\ tg = NoToggle
    /\ win = NoWindow
    /\ bus = NoCall
    /\ lis = NoListener
    /\ launch_timeout = <<>>
    /\ attempt = 0
    /\ failedPolls = 0
    /\ launch_in_background = <<>>
    /\ place = NoPlacement
    /\ watch = NoWatch

\* The process is gone: its exit path is recorded, its task state dropped.
Gone(p, why) ==
    /\ pc' = [pc EXCEPT ![p] = "exited"]
    /\ exitBy' = [exitBy EXCEPT ![p] = why]
    /\ old_pid' = [old_pid EXCEPT ![p] = 0]
    /\ fdOnPath' = [fdOnPath EXCEPT ![p] = FALSE]
    /\ pending' = [pending EXCEPT ![p] = FALSE]
    /\ permit' = [permit EXCEPT ![p] = FALSE]
    /\ intr' = [intr EXCEPT ![p] = FALSE]
    /\ pollOn' = [pollOn EXCEPT ![p] = FALSE]

Goto(p, where) == pc' = [pc EXCEPT ![p] = where]

\* main up to the call of acquire_lock: the configuration is loaded and names
\* the application.
Invoke(p) ==
    /\ pc[p] = "idle"
    /\ Goto(p, "exists")
    /\ UNCHANGED <<token, old_pid, fdOnPath, exitBy, sigSent, hyprUsed,
                   pending, permit, intr, pollOn, lastPoll>>
    /\ UNCHANGED <<releases, compVars, trayVars, stepVars, startVars>>


(***************************************************************************)
(* lock.rs: acquire_lock, one action per file-system call or command.     *)
(***************************************************************************)

\* The delivery of SIGUSR1 to q: a process without the handler is terminated
\* by the default disposition, a process with it gets the signal queued in
\* its stream (signals of one kind coalesce), a process that is gone gets
\* nothing.
KilledBySigusr1(q) == Alive(q) /\ ~HasSigusr1Handler(q)

PcAfterSigusr1(f, q) == IF KilledBySigusr1(q) THEN [f EXCEPT ![q] = "exited"] ELSE f

ExitByAfterSigusr1(f, q) == IF KilledBySigusr1(q) THEN [f EXCEPT ![q] = "sigusr1"] ELSE f

PendingAfterSigusr1(f, q) ==
    IF Alive(q) /\ HasSigusr1Handler(q) THEN [f EXCEPT ![q] = TRUE] ELSE f

\* lock_file.exists()
AcqExists(p) ==
    /\ pc[p] = "exists"
    /\ Goto(p, IF token # Absent THEN "read" ELSE "create")
    /\ UNCHANGED <<token, old_pid, fdOnPath, exitBy, sigSent, hyprUsed,
                   pending, permit, intr, pollOn, lastPoll>>
    /\ UNCHANGED <<releases, compVars, trayVars, stepVars, startVars>>

\* fs::read_to_string and parse::<i32>: a missing file or a text that is no
\* number falls through to the creation of the file.
AcqRead(p) ==
    /\ pc[p] = "read"
    /\ IF token \in Procs
          THEN /\ old_pid' = [old_pid EXCEPT ![p] = token]
               /\ Goto(p, "probe")
          ELSE /\ Goto(p, "create")
               /\ UNCHANGED old_pid
    /\ UNCHANGED <<token, fdOnPath, exitBy, sigSent, hyprUsed,
                   pending, permit, intr, pollOn, lastPoll>>
    /\ UNCHANGED <<releases, compVars, trayVars, stepVars, startVars>>

\* AcqProbe with a probe that could not run taken for "running".
AcqProbeTrustsFailedProbe(p) ==
    /\ pc[p] = "probe"
    /\ \E ran \in BOOLEAN :
          Goto(p, IF ~ran \/ Alive(old_pid[p]) THEN "signal" ELSE "remove")
    /\ UNCHANGED <<token, old_pid, fdOnPath, exitBy, sigSent, hyprUsed,
                   pending, permit, intr, pollOn, lastPoll>>
    /\ UNCHANGED <<releases, compVars, trayVars, stepVars, startVars>>

\* kill -0 old_pid: the probe may fail to run (ran = FALSE); when it runs it
\* succeeds exactly when the process exists.
AcqProbe(p) ==
    /\ pc[p] = "probe"
    /\ \E ran \in BOOLEAN :
          Goto(p, IF ran /\ Alive(old_pid[p]) THEN "signal" ELSE "remove")
    /\ UNCHANGED <<token, old_pid, fdOnPath, exitBy, sigSent, hyprUsed,
                   pending, permit, intr, pollOn, lastPoll>>
    /\ UNCHANGED <<releases, compVars, trayVars, stepVars, startVars>>

\* AcqSignal without its return: the call falls through to the creation of
\* the lock file.
AcqSignalFallsThrough(p) ==
    /\ pc[p] = "signal"
    /\ sigSent' = [sigSent EXCEPT ![p] = @ + 1]
    /\ pc' = PcAfterSigusr1([pc EXCEPT ![p] = "create"], old_pid[p])
    /\ exitBy' = ExitByAfterSigusr1(exitBy, old_pid[p])
    /\ pending' = PendingAfterSigusr1(pending, old_pid[p])
    /\ UNCHANGED <<token, old_pid, fdOnPath, hyprUsed, permit, intr, pollOn, lastPoll>>
    /\ UNCHANGED <<releases, compVars, trayVars, stepVars, startVars>>

\* kill -USR1 old_pid, return Ok(Some(old_pid)); main prints and exits with
\* status 0 (main.rs 65-68).
AcqSignal(p) ==
    /\ pc[p] = "signal"
    /\ sigSent' = [sigSent EXCEPT ![p] = @ + 1]
    /\ pc' = PcAfterSigusr1([pc EXCEPT ![p] = "exited"], old_pid[p])
    /\ exitBy' = ExitByAfterSigusr1([exitBy EXCEPT ![p] = "already"], old_pid[p])
    /\ pending' = PendingAfterSigusr1(pending, old_pid[p])
    /\ old_pid' = [old_pid EXCEPT ![p] = 0]
    /\ UNCHANGED <<token, fdOnPath, hyprUsed, permit, intr, pollOn, lastPoll>>
    /\ UNCHANGED <<releases, compVars, trayVars, stepVars, startVars>>

\* fs::remove_file of the file taken for stale; its result is dropped.
AcqRemove(p) ==
    /\ pc[p] = "remove"
    /\ token' = Absent
    /\ fdOnPath' = [q \in Procs |-> FALSE]
    /\ Goto(p, "create")
    /\ UNCHANGED <<old_pid, exitBy, sigSent, hyprUsed,
                   pending, permit, intr, pollOn, lastPoll>>
    /\ UNCHANGED <<releases, compVars, trayVars, stepVars, startVars>>

\* fs::File::create: creates the file, or truncates the one that is there;
\* an error is returned to main, which exits with it.
AcqCreate(p) ==
    /\ pc[p] = "create"
    /\ \E ok \in BOOLEAN :
          IF ok
             THEN /\ token' = Unparsable
                  /\ fdOnPath' = [fdOnPath EXCEPT ![p] = TRUE]
                  /\ Goto(p, "write")
                  /\ UNCHANGED <<old_pid, exitBy, pending, permit, intr, pollOn>>
             ELSE /\ Gone(p, "lockerr")
                  /\ UNCHANGED token
    /\ UNCHANGED <<sigSent, hyprUsed, lastPoll>>
    /\ UNCHANGED <<releases, compVars, trayVars, stepVars, startVars>>

\* write!(file, "{}", current_pid), return Ok(None).  The text lands in the
\* file p created, which is the lock file only while nobody removed it.
AcqWrite(p) ==
    /\ pc[p] = "write"
    /\ \E ok \in BOOLEAN :
          IF ok
             THEN /\ token' = IF fdOnPath[p] THEN p ELSE token
                  /\ fdOnPath' = [fdOnPath EXCEPT ![p] = FALSE]
                  /\ Goto(p, "clients")
                  /\ old_pid' = [old_pid EXCEPT ![p] = 0]
                  /\ UNCHANGED <<exitBy, pending, permit, intr, pollOn>>
             ELSE /\ Gone(p, "lockerr")
                  /\ UNCHANGED token
    /\ UNCHANGED <<sigSent, hyprUsed, lastPoll>>
    /\ UNCHANGED <<releases, compVars, trayVars, stepVars, startVars>>

(***************************************************************************)
(* main.rs: from the claim of the lock to the exit selection.             *)
(***************************************************************************)

\* hyprctl("clients") and the search for the configured class; the error of
\* the query leaves main through `?`.
FindClients(p) ==
    /\ pc[p] = "clients"
    /\ hyprUsed' = [hyprUsed EXCEPT ![p] = TRUE]
    /\ \E r \in {"failed", "found", "none"} :
          IF r = "failed"
             THEN Gone(p, "clients")
             ELSE /\ Goto(p, IF r = "found" THEN "place_existing" ELSE "launch")
                  /\ UNCHANGED <<old_pid, fdOnPath, exitBy, pending, permit,
                                 intr, pollOn>>
    /\ UNCHANGED <<token, sigSent, lastPoll>>
    /\ UNCHANGED <<releases, compVars, trayVars, stepVars, startVars>>

\* launcher::launch_application(&app_config)?
Launch(p) ==
    /\ pc[p] = "launch"
    /\ \E ok \in BOOLEAN :
          IF ok
             THEN /\ Goto(p, "wait")
                  /\ UNCHANGED <<old_pid, fdOnPath, exitBy, pending, permit,
                                 intr, pollOn>>
             ELSE Gone(p, "launch")
    /\ UNCHANGED <<token, sigSent, hyprUsed, lastPoll>>
    /\ UNCHANGED <<releases, compVars, trayVars, stepVars, startVars>>

\* The launch-wait loop as a whole: the window shows up in one of its polls,
\* or none finds it and main calls release_lock on its way to exit(1).
LaunchWait(p) ==
    /\ pc[p] = "wait"
    /\ \E found \in BOOLEAN :
          IF found
             THEN /\ Goto(p, "place_new")
                  /\ UNCHANGED <<exitBy, releases>>
             ELSE /\ Goto(p, "rel_exists")
                  /\ exitBy' = [exitBy EXCEPT ![p] = "timeout"]
                  /\ releases' = [releases EXCEPT ![p] = @ + 1]
    /\ UNCHANGED <<token, old_pid, fdOnPath, sigSent, hyprUsed, pending,
                   permit, intr, pollOn, lastPoll>>
    /\ UNCHANGED <<compVars, trayVars, stepVars, startVars>>

\* The initial placement: a toggle for a window that was there, the move to
\* the hidden workspace or nothing for a launched one; every result dropped.
InitialPlacement(p) ==
    /\ pc[p] \in {"place_existing", "place_new"}
    /\ Goto(p, "connect")
    /\ UNCHANGED <<token, old_pid, fdOnPath, exitBy, sigSent, hyprUsed,
                   pending, permit, intr, pollOn, lastPoll>>
    /\ UNCHANGED <<releases, compVars, trayVars, stepVars, startVars>>

\* ConnectionBuilder::session()?...build().await?
Connect(p) ==
    /\ pc[p] = "connect"
    /\ \E ok \in BOOLEAN :
          IF ok
             THEN /\ Goto(p, "register")
                  /\ UNCHANGED <<old_pid, fdOnPath, exitBy, pending, permit,
                                 intr, pollOn>>
             ELSE Gone(p, "connect")
    /\ UNCHANGED <<token, sigSent, hyprUsed, lastPoll>>
    /\ UNCHANGED <<releases, compVars, trayVars, stepVars, startVars>>

\* dbus::register_with_watcher; on its error main moves the window back and
\* bails.
Register(p) ==
    /\ pc[p] = "register"
    /\ \E ok \in BOOLEAN :
          IF ok
             THEN /\ Goto(p, "sigsetup")
                  /\ UNCHANGED <<old_pid, fdOnPath, exitBy, pending, permit,
                                 intr, pollOn>>
             ELSE Gone(p, "register")
    /\ UNCHANGED <<token, sigSent, hyprUsed, lastPoll>>
    /\ UNCHANGED <<releases, compVars, trayVars, stepVars, startVars>>

\* signal(SignalKind::user_defined1())?, then the spawn of the SIGUSR1
\* listener and of the window liveness task; main reaches its select.
SignalSetup(p) ==
    /\ pc[p] = "sigsetup"
    /\ \E ok \in BOOLEAN :
          IF ok
             THEN /\ Goto(p, "select")
                  /\ pollOn' = [pollOn EXCEPT ![p] = TRUE]
                  /\ UNCHANGED <<old_pid, fdOnPath, exitBy, pending, permit, intr>>
             ELSE Gone(p, "sigsetup")
    /\ UNCHANGED <<token, sigSent, hyprUsed, lastPoll>>
    /\ UNCHANGED <<releases, compVars, trayVars, stepVars, startVars>>

\* The SIGUSR1 listener: one recv, one handle_window_toggle; its error is
\* printed.
SigusrListener(p) ==
    /\ pc[p] = "select"
    /\ pending[p]
    /\ pending' = [pending EXCEPT ![p] = FALSE]
    /\ hyprUsed' = [hyprUsed EXCEPT ![p] = TRUE]
    /\ UNCHANGED <<token, pc, old_pid, fdOnPath, exitBy, sigSent, permit,
                   intr, pollOn, lastPoll>>
    /\ UNCHANGED <<releases, compVars, trayVars, stepVars, startVars>>

\* PollTick with a failed query only logged: the task polls on.
PollTickIgnoresFailure(p) ==
    /\ pc[p] = "select"
    /\ pollOn[p]
    /\ \E r \in {"present", "absent", "failed"} :
          /\ lastPoll' = [lastPoll EXCEPT ![p] = r]
          /\ IF r \in {"present", "failed"}
                THEN UNCHANGED <<permit, pollOn>>
                ELSE /\ permit' = [permit EXCEPT ![p] = TRUE]
                     /\ pollOn' = [pollOn EXCEPT ![p] = FALSE]
    /\ UNCHANGED <<token, pc, old_pid, fdOnPath, exitBy, sigSent, hyprUsed,
                   pending, intr>>
    /\ UNCHANGED <<releases, compVars, trayVars, stepVars, startVars>>

\* One iteration of the window liveness task.
PollTick(p) ==
    /\ pc[p] = "select"
    /\ pollOn[p]
    /\ \E r \in {"present", "absent", "failed"} :
          /\ lastPoll' = [lastPoll EXCEPT ![p] = r]
          /\ IF r = "present"
                THEN UNCHANGED <<permit, pollOn>>
                ELSE /\ permit' = [permit EXCEPT ![p] = TRUE]
                     /\ pollOn' = [pollOn EXCEPT ![p] = FALSE]
    /\ UNCHANGED <<token, pc, old_pid, fdOnPath, exitBy, sigSent, hyprUsed,
                   pending, intr>>
    /\ UNCHANGED <<releases, compVars, trayVars, stepVars, startVars>>

\* An interrupt signal from outside: ctrl_c() listens once main is in its
\* select; before that the default disposition terminates the process.
CtrlC(p) ==
    /\ Alive(p)
    /\ IF pc[p] = "select"
          THEN /\ ~intr[p]
               /\ intr' = [intr EXCEPT ![p] = TRUE]
               /\ UNCHANGED <<pc, old_pid, fdOnPath, exitBy, pending, permit, pollOn>>
          ELSE /\ ~HasSigintHandler(p)
               /\ Gone(p, "sigint")
    /\ UNCHANGED <<token, sigSent, hyprUsed, lastPoll>>
    /\ UNCHANGED <<releases, compVars, trayVars, stepVars, startVars>>

\* MainSelect with main returning right after the select, release_lock
\* left out.
MainSelectSkipsRelease(p) ==
    /\ pc[p] = "select"
    /\ permit[p] \/ intr[p]
    /\ Gone(p, "normal")
    /\ lastPoll' = [lastPoll EXCEPT ![p] = "none"]
    /\ UNCHANGED <<token, sigSent, hyprUsed>>
    /\ UNCHANGED <<releases, compVars, trayVars, stepVars, startVars>>

\* tokio::select! resolves on the interrupt or on exit_notify.notified(),
\* which takes the stored notification.  main does not await again: the
\* spawned tasks never run after this step.
MainSelect(p) ==
    /\ pc[p] = "select"
    /\ permit[p] \/ intr[p]
    /\ Goto(p, "rel_exists")
    /\ exitBy' = [exitBy EXCEPT ![p] = "normal"]
    /\ permit' = [permit EXCEPT ![p] = FALSE]
    /\ intr' = [intr EXCEPT ![p] = FALSE]
    /\ pollOn' = [pollOn EXCEPT ![p] = FALSE]
    /\ lastPoll' = [lastPoll EXCEPT ![p] = "none"]
    /\ releases' = [releases EXCEPT ![p] = @ + 1]
    /\ UNCHANGED <<token, old_pid, fdOnPath, sigSent, hyprUsed, pending>>
    /\ UNCHANGED <<compVars, trayVars, stepVars, startVars>>

(***************************************************************************)
(* lock.rs: release_lock, and the exit of main that follows it.           *)
(***************************************************************************)

\* lock_file.exists()
RelExists(p) ==
    /\ pc[p] = "rel_exists"
    /\ IF token # Absent
          THEN /\ Goto(p, "rel_read")
               /\ UNCHANGED <<old_pid, fdOnPath, exitBy, pending, permit, intr, pollOn>>
          ELSE Gone(p, exitBy[p])
    /\ UNCHANGED <<token, sigSent, hyprUsed, lastPoll>>
    /\ UNCHANGED <<releases, compVars, trayVars, stepVars, startVars>>

\* fs::read_to_string, parse::<u32> and the comparison with the own pid.
RelRead(p) ==
    /\ pc[p] = "rel_read"
    /\ IF token = p
          THEN /\ Goto(p, "rel_remove")
               /\ UNCHANGED <<old_pid, fdOnPath, exitBy, pending, permit, intr, pollOn>>
          ELSE Gone(p, exitBy[p])
    /\ UNCHANGED <<token, sigSent, hyprUsed, lastPoll>>
    /\ UNCHANGED <<releases, compVars, trayVars, stepVars, startVars>>

\* RelRemove with main going back to its select after release_lock.
RelRemoveKeepsWaiting(p) ==
    /\ pc[p] = "rel_remove"
    /\ token' = Absent
    /\ pc' = [pc EXCEPT ![p] = "select"]
    /\ fdOnPath' = [q \in Procs |-> FALSE]
    /\ UNCHANGED <<pending, permit, intr, pollOn>>
    /\ UNCHANGED <<old_pid, exitBy, sigSent, hyprUsed, lastPoll>>
    /\ UNCHANGED <<releases, compVars, trayVars, stepVars, startVars>>

\* fs::remove_file, then main exits.
RelRemove(p) ==
    /\ pc[p] = "rel_remove"
    /\ token' = Absent
    /\ pc' = [pc EXCEPT ![p] = "exited"]
    /\ fdOnPath' = [q \in Procs |-> FALSE]
    /\ pending' = [pending EXCEPT ![p] = FALSE]
    /\ permit' = [permit EXCEPT ![p] = FALSE]
    /\ intr' = [intr EXCEPT ![p] = FALSE]
    /\ pollOn' = [pollOn EXCEPT ![p] = FALSE]
    /\ UNCHANGED <<old_pid, exitBy, sigSent, hyprUsed, lastPoll>>
    /\ UNCHANGED <<releases, compVars, trayVars, stepVars, startVars>>

(***************************************************************************)
(* The specifications.                                                     *)
(***************************************************************************)

\* The steps of process p's own code.
Step(p) ==
    \/ AcqExists(p) \/ AcqRead(p) \/ AcqProbe(p) \/ AcqSignal(p)
    \/ AcqRemove(p) \/ AcqCreate(p) \/ AcqWrite(p)
    \/ FindClients(p) \/ Launch(p) \/ LaunchWait(p) \/ InitialPlacement(p)
    \/ Connect(p) \/ Register(p) \/ SignalSetup(p)
    \/ SigusrListener(p) \/ PollTick(p) \/ MainSelect(p)
    \/ RelExists(p) \/ RelRead(p) \/ RelRemove(p)

Next == \E p \in Procs : Invoke(p) \/ CtrlC(p) \/ Step(p)

Spec == Init /\ [][Next]_vars

\* The steps of main from the resolution of its select to its exit.
ExitPath(p) == MainSelect(p) \/ RelExists(p) \/ RelRead(p) \/ RelRemove(p)

\* The runtime runs the main task whenever it is ready, and release_lock
\* runs to its end: a process that can take a step of its exit path takes it.
FairSpec == Spec /\ \A p \in Procs : WF_vars(ExitPath(p))

(***************************************************************************)
(* The compositor, as hyprctl shows it and as its dispatch commands change *)
(* it.  comp.ws[a] is the workspace id of window a, comp.active the id of  *)
(* the active ordinary workspace, comp.shown the hidden workspace shown on *)
(* top of it (0 when none), comp.focus the focused window (0 when none),   *)
(* comp.centered the windows that were centered and comp.top the window    *)
(* that was raised last (0 when none).                                     *)
(***************************************************************************)

WsIds == OtherSpecialWs..NWorkspaces

\* The hidden workspace "special:<class>".
SpecialOf(class) == IF class = ManagedClass THEN HiddenWs ELSE OtherSpecialWs

\* The client list of "hyprctl clients", in the order of the addresses.
Clients(c) == {a \in Addrs : c.ws[a] # Closed}

\* The windows among which the compositor picks the focus: those of the
\* shown hidden workspace if it has any, else those of the active workspace.
Visible(c) ==
    IF c.shown # 0 /\ \E a \in Addrs : c.ws[a] = c.shown
    THEN {a \in Addrs : c.ws[a] = c.shown}
    ELSE {a \in Addrs : c.ws[a] = c.active}

FocusChoices(S) == IF S = {} THEN {0} ELSE S

\* The placements a toggle may find.
Placements ==
    {c \in [ws : [Addrs -> WsIds], active : 1..NWorkspaces,
            shown : {0, HiddenWs, OtherSpecialWs}, focus : 0..NWindows,
            centered : {{}}, top : {0}] :
        c.focus \in FocusChoices(Visible(c))}

\* The dispatch commands the program issues.  addr = 0: the command names
\* no window and acts on the focused one.
ToggleSpecialCmd(class) == [verb |-> "togglespecialworkspace", class |-> class, addr |-> 0]
CenterCmd == [verb |-> "centerwindow", class |-> "", addr |-> 0]
MoveHereCmd(addr) == [verb |-> "movetoworkspace +0", class |-> "", addr |-> addr]
RaiseCmd == [verb |-> "alterzorder top", class |-> "", addr |-> 0]
FocusClassCmd(class) == [verb |-> "focuswindow initialclass", class |-> class, addr |-> 0]
MoveSilentCmd(class, addr) == [verb |-> "movetoworkspacesilent special", class |-> class, addr |-> addr]
FocusAddrCmd(addr) == [verb |-> "focuswindow address", class |-> "", addr |-> addr]
CloseCmd(addr) == [verb |-> "closewindow", class |-> "", addr |-> addr]
MoveToCmd(n, addr) == [verb |-> "movetoworkspace", class |-> "", addr |-> addr, ws |-> n]

\* The workspace "movetoworkspace n" names: an id that is not positive is
\* taken relative to the active workspace; 0 when there is no such
\* workspace.
NamedWs(c, n) ==
    LET id == IF n > 0 THEN n ELSE c.active + n
    IN  IF id \in 1..NWorkspaces THEN id ELSE 0

\* The window a command acts on, 0 when there is none.
Target(c, cmd) ==
    LET t == IF cmd.addr # 0 THEN cmd.addr ELSE c.focus
    IN  IF t # 0 /\ c.ws[t] # Closed THEN t ELSE 0

\* The compositor states a successful command may leave.
Exec(c, cmd) ==
    LET t == Target(c, cmd)
        sp == SpecialOf(cmd.class)
    IN  CASE cmd.verb = "togglespecialworkspace" ->
                IF c.shown = sp
                THEN LET h == [c EXCEPT !.shown = 0]
                     IN  {[h EXCEPT !.focus = f] : f \in FocusChoices(Visible(h))}
                ELSE {[c EXCEPT !.shown = sp, !.focus = f] :
                        f \in FocusChoices({a \in Addrs : c.ws[a] = sp})}
          [] cmd.verb = "centerwindow" ->
                IF t = 0 THEN {c} ELSE {[c EXCEPT !.centered = @ \cup {t}]}
          [] cmd.verb = "movetoworkspace +0" ->
                IF t = 0 THEN {c}
                ELSE {[c EXCEPT !.ws[t] = c.active, !.shown = 0, !.focus = t]}
          [] cmd.verb = "alterzorder top" ->
                IF t = 0 THEN {c} ELSE {[c EXCEPT !.top = t]}
          [] cmd.verb = "focuswindow initialclass" ->
                LET S == {a \in Clients(c) : classOf[a] = cmd.class}
                IN  IF S = {} THEN {c}
                    ELSE {[c EXCEPT !.focus = a,
                                    !.active = IF c.ws[a] > 0 THEN c.ws[a] ELSE @,
                                    !.shown = IF c.ws[a] < 0 THEN c.ws[a] ELSE 0] :
                            a \in S}
          [] cmd.verb = "focuswindow address" ->
                IF t = 0 THEN {c}
                ELSE {[c EXCEPT !.focus = t,
                                !.active = IF c.ws[t] > 0 THEN c.ws[t] ELSE @,
                                !.shown = IF c.ws[t] < 0 THEN c.ws[t] ELSE 0]}
          [] cmd.verb = "closewindow" ->
                IF t = 0 THEN {c}
                ELSE LET m == [c EXCEPT !.ws[t] = Closed, !.centered = @ \ {t},
                                        !.top = IF @ = t THEN 0 ELSE @]
                     IN  IF c.focus = t
                         THEN {[m EXCEPT !.focus = f] : f \in FocusChoices(Visible(m))}
                         ELSE {m}
          [] cmd.verb = "movetoworkspace" ->
                IF t = 0 \/ NamedWs(c, cmd.ws) = 0 THEN {c}
                ELSE {[c EXCEPT !.ws[t] = NamedWs(c, cmd.ws),
                                !.active = NamedWs(c, cmd.ws),
                                !.shown = 0, !.focus = t]}
          [] cmd.verb = "movetoworkspacesilent special" ->
                IF t = 0 THEN {c}
                ELSE LET m == [c EXCEPT !.ws[t] = sp, !.centered = @ \ {t},
                                        !.top = IF @ = t THEN 0 ELSE @]
                     IN  IF c.focus = t /\ c.shown # sp
                         THEN {[m EXCEPT !.focus = f] : f \in FocusChoices(Visible(m))}
                         ELSE {m}

\* The compositor states that running the commands in order may leave.
RECURSIVE Run(_, _)
Run(cmds, S) ==
    IF cmds = <<>> THEN S
    ELSE Run(Tail(cmds), UNION {Exec(c, Head(cmds)) : c \in S})

(***************************************************************************)
(* handle_window_toggle                                                    *)
(***************************************************************************)

toggle_special_workspace(class) ==
    <<ToggleSpecialCmd(class), CenterCmd, MoveHereCmd(0), RaiseCmd>>

\* The first client whose class is the requested one, 0 when there is none.
FindWindow(c, class) ==
    LET S == {a \in Clients(c) : classOf[a] = class}
    IN  IF S = {} THEN 0 ELSE CHOOSE a \in S : \A b \in S : a <= b

\* The case the toggle selects from the workspace id w of the window and
\* the id a of the active workspace, and the commands of the case.
ToggleBranch(class, address, w, a) ==
    IF w < 0
    THEN [case |-> "special", cmds |-> toggle_special_workspace(class)]
    ELSE IF w = a
    THEN [case |-> "current",
          cmds |-> <<FocusClassCmd(class), MoveSilentCmd(class, address)>>]
    ELSE [case |-> "other",
          cmds |-> <<MoveHereCmd(address), CenterCmd, RaiseCmd>>]

\* The branch of the missing window returning an error.
NotFoundIsError == [result |-> "err", case |-> "notfound"]

\* No client has the requested class: the toggle prints and returns Ok(()).
NotFound == [result |-> "ok", case |-> "notfound"]

\* The length of the run of successful toggles that this one extends: a run
\* starts with a toggle of a window on the active workspace and goes on
\* while the toggles succeed, find the same window and are answered the
\* same active workspace.
RunAfter(result, case, window, a) ==
    IF result # "ok" THEN 0
    ELSE IF tg.run > 0 /\ tg.found = window /\ tg.a = a THEN tg.run + 1
    ELSE IF case = "current" THEN 1
    ELSE 0

\* handle_window_toggle dropping the result of every dispatch but the
\* last: a command that failed is followed by the commands after it.
ToggleCallKeepsGoing ==
    LET window == FindWindow(comp, ManagedClass)
        done(result, case, w, a, answers, issued) ==
            tg' = [n |-> tg.n + 1, result |-> result, case |-> case,
                   found |-> w, a |-> a,
                   queries |-> SubSeq(<<"clients", "activeworkspace">>, 1,
                                      Len(answers)),
                   answers |-> answers, issued |-> issued,
                   run |-> RunAfter(result, case, w, a)]
    IN  \/ /\ done("err", "none", 0, 0, <<"failed">>, <<>>)
           /\ comp' = comp
        \/ /\ window = 0
           /\ done(NotFound.result, NotFound.case, 0, 0, <<"ok">>, <<>>)
           /\ comp' = comp
        \/ /\ window # 0
           /\ done("err", "none", window, 0, <<"ok", "failed">>, <<>>)
           /\ comp' = comp
        \/ /\ window # 0
           /\ LET b == ToggleBranch(ManagedClass, window, comp.ws[window],
                                    comp.active)
                  len == Len(b.cmds)
              IN  \E k \in 0..len :
                     /\ comp' \in Run(SubSeq(b.cmds, 1, k)
                                         \o SubSeq(b.cmds, k + 2, len), {comp})
                     /\ done(IF k = len THEN "ok" ELSE "err", b.case, window,
                             comp.active, <<"ok", "ok">>, b.cmds)

\* One call handle_window_toggle(ManagedClass) on the compositor.  tg records
\* the call: its number, its result, the case it selected, the window it
\* found, the active workspace it was answered, the queries it made and
\* their answers, and the dispatch commands it issued.
ToggleCall ==
    LET window == FindWindow(comp, ManagedClass)
        done(result, case, w, a, answers, issued) ==
            tg' = [n |-> tg.n + 1, result |-> result, case |-> case,
                   found |-> w, a |-> a,
                   queries |-> SubSeq(<<"clients", "activeworkspace">>, 1,
                                      Len(answers)),
                   answers |-> answers, issued |-> issued,
                   run |-> RunAfter(result, case, w, a)]
    IN  \/ /\ done("err", "none", 0, 0, <<"failed">>, <<>>)
           /\ comp' = comp
        \/ /\ window = 0
           /\ done(NotFound.result, NotFound.case, 0, 0, <<"ok">>, <<>>)
           /\ comp' = comp
        \/ /\ window # 0
           /\ done("err", "none", window, 0, <<"ok", "failed">>, <<>>)
           /\ comp' = comp
        \/ /\ window # 0
           /\ LET b == ToggleBranch(ManagedClass, window, comp.ws[window],
                                    comp.active)
                  len == Len(b.cmds)
              IN  \E k \in 0..len :
                     /\ comp' \in Run(SubSeq(b.cmds, 1, k), {comp})
                     /\ done(IF k = len THEN "ok" ELSE "err", b.case, window,
                             comp.active, <<"ok", "ok">>,
                             SubSeq(b.cmds, 1, IF k = len THEN len ELSE k + 1))

\* handle_window_toggle called again and again.
HandleWindowToggle ==
    /\ tg.n < MaxToggles
    /\ ToggleCall
    /\ UNCHANGED <<procVars, classOf, trayVars, stepVars, startVars>>

InitToggle ==
    /\ InitProcs
    /\ comp \in Placements
    /\ classOf \in [Addrs -> Classes]
    /\ tg = NoToggle
    /\ win = NoWindow
    /\ bus = NoCall
    /\ lis = NoListener
    /\ launch_timeout = <<>>
    /\ attempt = 0
    /\ failedPolls = 0
    /\ launch_in_background = <<>>
    /\ place = NoPlacement
    /\ watch = NoWatch

NextToggle == HandleWindowToggle

SpecToggle == InitToggle /\ [][NextToggle]_vars

(***************************************************************************)
(* dbus.rs: the methods of the tray icon and of its menu.  A method runs   *)
(* on a handler state h: the compositor, the stored notification of        *)
(* exit_notify, the SIGUSR1 stream of the process, and what the call has   *)
(* done so far.                                                            *)
(***************************************************************************)

\* The tray server answers from the build of the connection (main.rs 172)
\* until main leaves its select.
Served(p) == pc[p] \in {"register", "sigsetup", "select"}

HStart(p) ==
    [comp |-> comp, permit |-> permit[p], pending |-> pending[p],
     waiting |-> pc[p] = "select", killed |-> FALSE, issued |-> <<>>,
     failed |-> 0, fired |-> 0, trace |-> <<>>]

\* hyprland::dispatch(cmd) returning Ok(()), and returning Err.
DispatchOk(h, cmd) ==
    {[h EXCEPT !.comp = c, !.issued = Append(@, cmd),
               !.trace = Append(@, cmd.verb)] : c \in Exec(h.comp, cmd)}

DispatchErr(h, cmd) ==
    [h EXCEPT !.issued = Append(@, cmd), !.failed = @ + 1,
              !.trace = Append(@, cmd.verb)]

\* exit_notify.notify_waiters() in the place of notify_one(): it wakes the
\* task that waits and stores nothing.
NotifyWaiters(h) ==
    [h EXCEPT !.permit = @ \/ h.waiting, !.fired = @ + 1,
              !.trace = Append(@, "notify_one")]

\* exit_notify.notify_one(): the task that waits in notified() is woken,
\* and with no task waiting the notification is stored.
NotifyOne(h) ==
    [h EXCEPT !.permit = TRUE, !.fired = @ + 1,
              !.trace = Append(@, "notify_one")]

\* kill -USR1 <own pid>: queued in the stream when the process has the
\* handler, fatal when it has not.
KillSelf(h, handler) ==
    [h EXCEPT !.pending = IF handler THEN TRUE ELSE @,
              !.killed = ~handler,
              !.trace = Append(@, "kill -USR1")]

\* StatusNotifierItem::activate
activate(h, handler) == {KillSelf(h, handler)}

\* secondary_activate firing exit_notify only when the close succeeded.
secondary_activate_on_success(h) ==
    {DispatchErr(h, CloseCmd(win.address))}
        \cup {NotifyOne(h1) : h1 \in DispatchOk(h, CloseCmd(win.address))}

\* StatusNotifierItem::secondary_activate
secondary_activate(h) ==
    {NotifyOne(DispatchErr(h, CloseCmd(win.address)))}
        \cup {NotifyOne(h1) : h1 \in DispatchOk(h, CloseCmd(win.address))}

\* The item ids and event types a caller may send.
EventIds == 0..4

EventTypes == {"clicked", "hovered"}

Events == [id : EventIds, type : EventTypes]

\* DbusMenu::event treating a failed restore as the end of the window: the
\* failure fires exit_notify.
event_failure_fires(h, id, type, handler) ==
    IF type # "clicked" THEN {h}
    ELSE CASE id = 1 -> {KillSelf(h, handler)}
           [] id = 2 ->
                {NotifyOne(DispatchErr(h, MoveToCmd(win.workspace, win.address)))}
                    \cup UNION {{NotifyOne(DispatchErr(h1, FocusAddrCmd(win.address)))}
                                   \cup DispatchOk(h1, FocusAddrCmd(win.address)) :
                                h1 \in DispatchOk(h, MoveToCmd(win.workspace,
                                                               win.address))}
           [] id = 3 ->
                {NotifyOne(DispatchErr(h, CloseCmd(win.address)))}
                    \cup {NotifyOne(h1) :
                            h1 \in DispatchOk(h, CloseCmd(win.address))}
           [] OTHER -> {h}

\* DbusMenu::event
event(h, id, type, handler) ==
    IF type # "clicked" THEN {h}
    ELSE CASE id = 1 -> {KillSelf(h, handler)}
           [] id = 2 ->
                {DispatchErr(h, MoveToCmd(win.workspace, win.address))}
                    \cup UNION {{DispatchErr(h1, FocusAddrCmd(win.address))}
                                   \cup DispatchOk(h1, FocusAddrCmd(win.address)) :
                                h1 \in DispatchOk(h, MoveToCmd(win.workspace,
                                                               win.address))}
           [] id = 3 ->
                {NotifyOne(DispatchErr(h, CloseCmd(win.address)))}
                    \cup {NotifyOne(h1) :
                            h1 \in DispatchOk(h, CloseCmd(win.address))}
           [] OTHER -> {h}

\* The item has no action, or the event is not a click.
Ignored(e) == e.type # "clicked" \/ e.id \notin {1, 2, 3}

\* DbusMenu::event_group leaving its loop at the first event that the
\* single handler ignores.
RECURSIVE event_group_until_ignored(_, _, _)
event_group_until_ignored(H, events, handler) ==
    IF events = <<>> \/ Ignored(Head(events)) THEN H
    ELSE event_group_until_ignored(
             UNION {IF h.killed THEN {h}
                    ELSE event(h, Head(events).id, Head(events).type,
                               handler) : h \in H},
             Tail(events), handler)

\* DbusMenu::event_group: the events in list order; a process that its own
\* signal has terminated runs nothing more.
RECURSIVE event_group(_, _, _)
event_group(H, events, handler) ==
    IF events = <<>> THEN H
    ELSE event_group(UNION {IF h.killed THEN {h}
                            ELSE event(h, Head(events).id, Head(events).type,
                                       handler) : h \in H},
                     Tail(events), handler)

\* DbusMenu::get_group_properties: the ids that get an entry, in order.
get_group_properties(ids) == SelectSeq(ids, LAMBDA id : id \in {1, 2, 3})

\* The call returns: the handler state becomes the state of the process
\* and of the compositor, and bus records the call: its number, the method,
\* where main stood, the events or ids it was given, the commands it
\* issued, how many of them failed, how often it fired exit_notify (in this
\* call, and in all calls), the order of its steps, the ids it returned
\* properties for, and its reply.  No method returns an error to its caller.
Returns(p, h, method, events, props) ==
    /\ comp' = h.comp
    /\ bus' = [n |-> bus.n + 1, method |-> method, at |-> pc[p],
               events |-> events, issued |-> h.issued, failed |-> h.failed,
               fired |-> h.fired, total |-> bus.total + h.fired,
               trace |-> h.trace, props |-> props, reply |-> "ok"]
    /\ hyprUsed' = [hyprUsed EXCEPT ![p] = @ \/ h.issued # <<>>]
    /\ IF h.killed
          THEN Gone(p, "sigusr1")
          ELSE /\ permit' = [permit EXCEPT ![p] = h.permit]
               /\ pending' = [pending EXCEPT ![p] = h.pending]
               /\ UNCHANGED <<pc, exitBy, old_pid, fdOnPath, intr, pollOn>>
    /\ UNCHANGED <<token, sigSent, lastPoll, releases, classOf, tg, win,
                   stepVars, startVars>>

Activate(p) ==
    /\ Served(p)
    /\ bus.n < MaxCalls
    /\ \E h \in activate(HStart(p), HasSigusr1Handler(p)) :
          Returns(p, h, "activate", <<>>, <<>>)

SecondaryActivate(p) ==
    /\ Served(p)
    /\ bus.n < MaxCalls
    /\ \E h \in secondary_activate(HStart(p)) :
          Returns(p, h, "secondary_activate", <<>>, <<>>)

MenuEvent(p) ==
    /\ Served(p)
    /\ bus.n < MaxCalls
    /\ \E e \in Events :
          \E h \in event(HStart(p), e.id, e.type, HasSigusr1Handler(p)) :
             Returns(p, h, "event", <<e>>, <<>>)

\* The lists of at most MaxBatch elements of S.
Lists(S) == UNION {[1..n -> S] : n \in 0..MaxBatch}

EventGroup(p) ==
    /\ Served(p)
    /\ bus.n < MaxCalls
    /\ \E events \in Lists(Events) :
          \E h \in event_group({HStart(p)}, events, HasSigusr1Handler(p)) :
             Returns(p, h, "event_group", events, <<>>)

GetGroupProperties(p) ==
    /\ Served(p)
    /\ bus.n < MaxCalls
    /\ \E ids \in Lists(EventIds) :
          Returns(p, HStart(p), "get_group_properties",
                  [i \in 1..Len(ids) |-> [id |-> ids[i], type |-> "none"]],
                  get_group_properties(ids))

(***************************************************************************)
(* SpecDaemon: one daemon from the start of its tray server on, with the   *)
(* compositor, the toggles of its SIGUSR1 listener, its liveness task, the *)
(* calls of its tray and menu methods, and windows that close.  (Spec has  *)
(* the interrupt signal and the other invocations.)                        *)
(***************************************************************************)

\* The SIGUSR1 listener on the compositor: one recv, one
\* handle_window_toggle; its error is printed.
SigusrToggle(p) ==
    /\ pc[p] = "select"
    /\ pending[p]
    /\ tg.n < MaxToggles
    /\ pending' = [pending EXCEPT ![p] = FALSE]
    /\ hyprUsed' = [hyprUsed EXCEPT ![p] = TRUE]
    /\ ToggleCall
    /\ UNCHANGED <<token, pc, old_pid, fdOnPath, exitBy, sigSent, permit,
                   intr, pollOn, lastPoll, releases, classOf, trayVars, stepVars, startVars>>

\* PollWindow with a failed query taken as a poll that found nothing wrong:
\* the task logs it and keeps polling.
PollWindowSkipsFailure(p) ==
    /\ pc[p] = "select"
    /\ pollOn[p]
    /\ \E ok \in BOOLEAN :
          LET r == IF ~ok THEN "failed"
                   ELSE IF win.address \in Clients(comp) THEN "present"
                   ELSE "absent"
          IN  /\ lastPoll' = [lastPoll EXCEPT ![p] = r]
              /\ IF r \in {"present", "failed"}
                    THEN UNCHANGED <<permit, pollOn>>
                    ELSE /\ permit' = [permit EXCEPT ![p] = TRUE]
                         /\ pollOn' = [pollOn EXCEPT ![p] = FALSE]
    /\ UNCHANGED <<token, pc, old_pid, fdOnPath, exitBy, sigSent, hyprUsed,
                   pending, intr, releases, compVars, trayVars, stepVars, startVars>>

\* One iteration of the window liveness task on the compositor.
PollWindow(p) ==
    /\ pc[p] = "select"
    /\ pollOn[p]
    /\ \E ok \in BOOLEAN :
          LET r == IF ~ok THEN "failed"
                   ELSE IF win.address \in Clients(comp) THEN "present"
                   ELSE "absent"
          IN  /\ lastPoll' = [lastPoll EXCEPT ![p] = r]
              /\ IF r = "present"
                    THEN UNCHANGED <<permit, pollOn>>
                    ELSE /\ permit' = [permit EXCEPT ![p] = TRUE]
                         /\ pollOn' = [pollOn EXCEPT ![p] = FALSE]
    /\ UNCHANGED <<token, pc, old_pid, fdOnPath, exitBy, sigSent, hyprUsed,
                   pending, intr, releases, compVars, trayVars, stepVars, startVars>>

\* A window is closed by its user or by its application.
WindowCloses ==
    /\ \E a \in Clients(comp) : comp' \in Exec(comp, CloseCmd(a))
    /\ UNCHANGED <<procVars, classOf, tg, trayVars, stepVars, startVars>>

\* The process that is the daemon, and the window it manages.
TheDaemon == CHOOSE p \in Procs : \A q \in Procs : p <= q

TheWindow == CHOOSE a \in Addrs : \A b \in Addrs : a <= b

\* The daemon has claimed the lock, captured its window (on a workspace or
\* in its hidden workspace), placed it, and built its connection; the window
\* is on the active workspace or in its hidden workspace, the other windows
\* are of another class.
InitDaemon ==
    /\ token = TheDaemon
    /\ pc = [p \in Procs |-> IF p = TheDaemon THEN "register" ELSE "idle"]
    /\ old_pid = [p \in Procs |-> 0]
    /\ fdOnPath = [p \in Procs |-> FALSE]
    /\ exitBy = [p \in Procs |-> "none"]
    /\ sigSent = [p \in Procs |-> 0]
    /\ hyprUsed = [p \in Procs |-> p = TheDaemon]
    /\ pending = [p \in Procs |-> FALSE]
    /\ permit = [p \in Procs |-> FALSE]
    /\ intr = [p \in Procs |-> FALSE]
    /\ pollOn = [p \in Procs |-> FALSE]
    /\ lastPoll = [p \in Procs |-> "none"]
    /\ releases = [p \in Procs |-> 0]
    /\ classOf = [a \in Addrs |-> IF a = TheWindow THEN ManagedClass ELSE "other"]
    /\ comp \in {c \in Placements :
                    /\ c.active = 1 /\ c.shown = 0
                    /\ c.ws[TheWindow] \in {HiddenWs, c.active}
                    /\ \A a \in Addrs \ {TheWindow} : c.ws[a] = 1}
    /\ tg = NoToggle
    /\ \E w \in {HiddenWs} \cup 1..NWorkspaces :
          win = [address |-> TheWindow, workspace |-> w]
    /\ bus = NoCall
    /\ lis = NoListener
    /\ launch_timeout = <<>>
    /\ attempt = 0
    /\ failedPolls = 0
    /\ launch_in_background = <<>>
    /\ place = NoPlacement
    /\ watch = NoWatch

NextDaemon ==
    \/ \E p \in Procs :
          \/ Register(p) \/ SignalSetup(p)
          \/ SigusrToggle(p) \/ PollWindow(p)
          \/ Activate(p) \/ SecondaryActivate(p) \/ MenuEvent(p)
          \/ MainSelect(p) \/ RelExists(p) \/ RelRead(p) \/ RelRemove(p)
    \/ WindowCloses

SpecDaemon == InitDaemon /\ [][NextDaemon]_vars

\* The daemon that launched its window and kept it on the active
\* workspace (main.rs 143-146), with the fairness of its exit path.
InitLaunched ==
    /\ InitDaemon
    /\ comp.ws[TheWindow] = comp.active
    /\ comp.focus = TheWindow
    /\ win.workspace = comp.active

FairDaemon ==
    /\ InitLaunched
    /\ [][NextDaemon]_vars
    /\ \A p \in Procs : WF_vars(ExitPath(p))

(***************************************************************************)
(* SpecMenu: one call of a method of the menu, single or batched, on a     *)
(* daemon that has or has not yet installed its SIGUSR1 stream.            *)
(***************************************************************************)

InitMenu ==
    /\ token = TheDaemon
    /\ \E at \in {"register", "select"} :
          pc = [p \in Procs |-> IF p = TheDaemon THEN at ELSE "idle"]
    /\ old_pid = [p \in Procs |-> 0]
    /\ fdOnPath = [p \in Procs |-> FALSE]
    /\ exitBy = [p \in Procs |-> "none"]
    /\ sigSent = [p \in Procs |-> 0]
    /\ hyprUsed = [p \in Procs |-> p = TheDaemon]
    /\ pending = [p \in Procs |-> FALSE]
    /\ permit = [p \in Procs |-> FALSE]
    /\ intr = [p \in Procs |-> FALSE]
    /\ pollOn = [p \in Procs |-> FALSE]
    /\ lastPoll = [p \in Procs |-> "none"]
    /\ releases = [p \in Procs |-> 0]
    /\ classOf = [a \in Addrs |-> IF a = TheWindow THEN ManagedClass ELSE "other"]
    /\ comp \in {c \in Placements :
                    /\ c.active = 1 /\ c.shown = 0
                    /\ c.ws[TheWindow] \in {HiddenWs, c.active}
                    /\ \A a \in Addrs \ {TheWindow} : c.ws[a] = 1}
    /\ tg = NoToggle
    /\ \E w \in {HiddenWs} \cup 1..NWorkspaces :
          win = [address |-> TheWindow, workspace |-> w]
    /\ bus = [NoCall EXCEPT !.n = MaxCalls - 1]
    /\ lis = NoListener
    /\ launch_timeout = <<>>
    /\ attempt = 0
    /\ failedPolls = 0
    /\ launch_in_background = <<>>
    /\ place = NoPlacement
    /\ watch = NoWatch

NextMenu ==
    \E p \in Procs : MenuEvent(p) \/ EventGroup(p) \/ GetGroupProperties(p)

SpecMenu == InitMenu /\ [][NextMenu]_vars

(***************************************************************************)
(* Single instance (claims C1, C2, C7 to C10).                            *)
(***************************************************************************)

\* The processes that hold the "lock acquired" outcome and are running.
Daemons == {p \in Procs : IsDaemon(p)}

\* C1: under every interleaving of the steps of concurrent acquire_lock
\* calls, at most one live process at a time has received Ok(None) and runs
\* as the daemon of the application.
C1_AtMostOneDaemon == Cardinality(Daemons) <= 1

\* p takes a step of its own code from position `at` (an interrupt that
\* terminates it is not one).
Leaves(p, at) == pc[p] = at /\ pc'[p] # at /\ exitBy'[p] # "sigint"

C7_Sigusr1NeverKills == \A p \in Procs : exitBy[p] # "sigusr1"

\* C8 as stated: once acquire_lock takes the lock file for stale (the
\* recorded pid is gone, or the probe failed), it removes the file, writes
\* its own pid and returns Ok(None), without sending a signal.
C8_StaleAlwaysAcquired ==
    [][\A p \in Procs :
          /\ (Leaves(p, "probe") /\ ~Alive(old_pid[p])) => pc'[p] = "remove"
          /\ Leaves(p, "remove") => pc'[p] = "create" /\ token' = Absent
          /\ (Leaves(p, "create") /\ old_pid[p] # 0) => pc'[p] = "write"
          /\ (Leaves(p, "write") /\ old_pid[p] # 0) =>
                /\ pc'[p] = "clients"
                /\ fdOnPath[p] => token' = p
          /\ (old_pid[p] # 0 /\ pc[p] \in {"remove", "create", "write"})
                => sigSent'[p] = 0]_vars

\* C8 as amended: once acquire_lock takes the lock file for stale, it
\* removes the file and sends no signal; it then writes its own pid and
\* returns Ok(None), unless File::create or the write fails, and then it
\* returns that error and the process exits with a non-zero status.
C8_StaleReclaimed ==
    [][\A p \in Procs :
          /\ (Leaves(p, "probe") /\ ~Alive(old_pid[p])) => pc'[p] = "remove"
          /\ Leaves(p, "remove") => pc'[p] = "create" /\ token' = Absent
          /\ (Leaves(p, "create") /\ old_pid[p] # 0) =>
                \/ pc'[p] = "write" /\ token' = Unparsable
                \/ pc'[p] = "exited" /\ exitBy'[p] = "lockerr"
                     /\ ExitCode(exitBy'[p]) # 0 /\ token' = token
          /\ (Leaves(p, "write") /\ old_pid[p] # 0) =>
                \/ /\ pc'[p] = "clients"
                   /\ fdOnPath[p] => token' = p
                \/ pc'[p] = "exited" /\ exitBy'[p] = "lockerr"
                     /\ ExitCode(exitBy'[p]) # 0 /\ token' = token
          /\ (old_pid[p] # 0 /\ pc[p] \in {"remove", "create", "write"})
                => sigSent'[p] = 0]_vars

\* A process has reclaimed the lock file a dead process left behind.
C8_Witness ==
    \E p \in Procs : \E q \in Procs :
        /\ pc[q] = "exited" /\ exitBy[q] \notin {"none", "already", "lockerr"}
        /\ pc[p] = "clients" /\ token = p /\ sigSent[p] = 0

\* C9: release_lock removes the lock file only when the pid recorded in it
\* is the pid of the calling process; otherwise it leaves the file alone.
C9_ReleaseOwnerScoped ==
    [][\A p \in Procs :
          (pc[p] \in RelPcs /\ pc'[p] # pc[p] /\ token' # token) => token = p]_vars

\* C10: a lock file that records the pid of a live daemon is never removed
\* or overwritten by another process.
C10_LiveTokenUntouchedByOthers ==
    [][\A q \in Procs :
          (token = q /\ IsDaemon(q) /\ token' # token) => pc'[q] # pc[q]]_vars

(***************************************************************************)
(* Startup errors, exit and the liveness task (claims C4 to C6).          *)
(***************************************************************************)

\* The exit paths of the fatal startup errors after the claim of the lock.
StartupErrors == {"clients", "launch", "timeout", "connect", "register", "sigsetup"}

\* C5: a process that exits on a fatal startup error after it claimed the
\* lock has removed its own lock file before.
C5_StartupErrorReleasesLock ==
    \A p \in Procs :
        (pc[p] = "exited" /\ exitBy[p] \in StartupErrors)
           => (ExitCode(exitBy[p]) # 0 /\ token # p)

\* C4: a liveness poll that finds the managed address absent, or whose query
\* fails, has fired exit_notify and ended the task in that iteration: while
\* main is in its select the notification is stored and the task is out of
\* its loop, and no later poll replaces what that one found.
C4_PollFiresAndStops ==
    /\ [](\A p \in Procs :
            lastPoll[p] \in {"absent", "failed"} =>
               /\ ~pollOn[p]
               /\ permit[p] \/ pc[p] # "select")
    /\ [][\A p \in Procs :
            (lastPoll[p] \in {"absent", "failed"} /\ pc'[p] = "select")
               => lastPoll'[p] = lastPoll[p]]_vars

\* The liveness poll failed, the notification is stored, main still selects.
C4_Witness ==
    \E p \in Procs :
        lastPoll[p] = "failed" /\ permit[p] /\ ~pollOn[p] /\ pc[p] = "select"

\* C6: once main waits in its select, a fired exit_notify or an interrupt
\* leads to the end of the process; main leaves the select into release_lock
\* only, ends on this path only out of release_lock, and at its end the lock
\* file does not record its pid.
C6_ExitReleasesLock ==
    /\ \A p \in Procs :
          (pc[p] = "select" /\ (permit[p] \/ intr[p])) ~> (pc[p] = "exited")
    /\ [][\A p \in Procs :
            /\ (pc[p] = "select" /\ pc'[p] # "select") =>
                  pc'[p] = "rel_exists" /\ exitBy'[p] = "normal"
            /\ (exitBy'[p] = "normal" /\ pc'[p] = "exited" /\ pc[p] # "exited") =>
                  pc[p] \in RelPcs /\ token' # p]_vars
    /\ [](\A p \in Procs :
            (pc[p] = "exited" /\ exitBy[p] = "normal") => token # p)

\* A daemon took the exit path: it removed the lock file that recorded its
\* pid and ended with status 0.
C6_Witness ==
    \E p \in Procs :
        /\ pc[p] = "exited" /\ exitBy[p] = "normal" /\ ExitCode(exitBy[p]) = 0
        /\ token = Absent /\ hyprUsed[p]

(***************************************************************************)
(* The window toggle (claim C3).                                           *)
(***************************************************************************)

\* Window W is on workspace a, was centered and is the raised one.
OnActiveFront(c, W, a) == c.ws[W] = a /\ W \in c.centered /\ c.top = W

\* The step is a toggle that found a window and both of whose queries
\* succeeded.
ToggleSelects == tg'.n # tg.n /\ tg'.case \in {"special", "current", "other"}

\* C3: a toggle selects exactly one of three cases from the workspace id w
\* of the window it found and the id a of the active workspace, and when all
\* its commands succeed the window ends where the case says: w < 0, on the
\* active workspace, centered and raised; else w = a, in the hidden
\* workspace named after its class; else on the active workspace, centered
\* and raised.
C3_ToggleThreeCases ==
    [][ToggleSelects =>
        LET W == tg'.found
            w == comp.ws[W]
            a == comp.active
        IN  /\ tg'.case = "special" <=> w < 0
            /\ tg'.case = "current" <=> (w >= 0 /\ w = a)
            /\ tg'.case = "other" <=> (w >= 0 /\ w # a)
            /\ tg'.result = "ok" =>
                  /\ w < 0 => OnActiveFront(comp', W, a)
                  /\ (w >= 0 /\ w = a) => comp'.ws[W] = SpecialOf(classOf[W])
                  /\ (w >= 0 /\ w # a) => OnActiveFront(comp', W, a)]_vars

\* What the code does keep of C3: the selection, and the outcome of the two
\* cases whose move names the window by its address.
C3_SelectionAndAddressedCases ==
    [][ToggleSelects =>
        LET W == tg'.found
            w == comp.ws[W]
            a == comp.active
        IN  /\ tg'.case = "special" <=> w < 0
            /\ tg'.case = "current" <=> (w >= 0 /\ w = a)
            /\ tg'.case = "other" <=> (w >= 0 /\ w # a)
            /\ tg'.result = "ok" =>
                  /\ (w >= 0 /\ w = a) => comp'.ws[W] = SpecialOf(classOf[W])
                  /\ (w >= 0 /\ w # a) => OnActiveFront(comp', W, a)
                  /\ (/\ w = HiddenWs
                      /\ comp.shown # HiddenWs
                      /\ \A b \in Addrs \ {W} : comp.ws[b] # HiddenWs)
                     => OnActiveFront(comp', W, a)]_vars

(***************************************************************************)
(* Repeated toggles and the window that is not there (claims C11, C12).    *)
(***************************************************************************)

\* The step is a call of handle_window_toggle.
ToggleStep == tg'.n # tg.n

\* C11: starting with the window on the active workspace and with the
\* active workspace the same at every call, successive successful toggles
\* alternate: the first, third, ... take the window from the active
\* workspace to the hidden workspace, the second, fourth, ... return it to
\* the active workspace.
C11_TogglesAlternate ==
    [][(ToggleStep /\ tg'.run > 0) =>
        LET W == tg'.found
        IN  IF tg'.run % 2 = 1
            THEN /\ tg'.case = "current"
                 /\ comp.ws[W] = tg'.a
                 /\ comp'.ws[W] = HiddenWs
            ELSE comp'.ws[W] = tg'.a]_vars

\* What the code does keep of C11: the alternation while the found window
\* is the only one in the hidden workspace and that workspace is not shown
\* when a toggle takes it out.
C11_AlternateWhenAloneInHidden ==
    [][(ToggleStep /\ tg'.run > 0) =>
        LET W == tg'.found
        IN  IF tg'.run % 2 = 1
            THEN comp.ws[W] = tg'.a =>
                    tg'.case = "current" /\ comp'.ws[W] = HiddenWs
            ELSE (/\ comp.ws[W] = HiddenWs
                  /\ comp.shown # HiddenWs
                  /\ \A b \in Addrs \ {W} : comp.ws[b] # HiddenWs)
                 => comp'.ws[W] = tg'.a]_vars

\* Three toggles in a row have alternated.
C11_ThreeAlternated == tg.run = 3 /\ comp.ws[tg.found] = HiddenWs

\* C12: when the client list (also an empty one) holds no window of the
\* requested class, handle_window_toggle returns Ok, makes no query after
\* the client list, issues no dispatch command and changes nothing in the
\* compositor, and the daemon goes on: main stays where it is and
\* exit_notify is not fired.
C12_NotFoundIsNoOp ==
    [][(/\ ToggleStep
        /\ tg'.answers[1] = "ok"
        /\ \A a \in Clients(comp) : classOf[a] # ManagedClass)
       => /\ tg'.result = "ok"
          /\ tg'.queries = <<"clients">>
          /\ tg'.issued = <<>>
          /\ comp' = comp
          /\ pc' = pc /\ exitBy' = exitBy /\ permit' = permit]_vars

\* The listener of a running daemon toggled with an empty client list.
C12_Witness ==
    /\ tg.case = "notfound" /\ tg.result = "ok"
    /\ Clients(comp) = {}
    /\ pc[TheDaemon] = "select" /\ ~permit[TheDaemon]

(***************************************************************************)
(* The exit signal and the tray methods (claims C13 to C15, C17, C18).     *)
(***************************************************************************)

\* The step is a call of a tray or menu method.
CallStep == bus'.n # bus.n

\* The step fires exit_notify in process p: a method of its tray server
\* does, or its liveness task does.
Fires(p) ==
    \/ CallStep /\ Served(p) /\ bus'.fired > 0
    \/ lastPoll'[p] # lastPoll[p] /\ lastPoll'[p] \in {"absent", "failed"}

\* C13: however often and from whatever source (liveness task, menu close,
\* secondary click) exit_notify is fired, the process calls release_lock at
\* most once, exactly once when it ends by its exit path, and a fire only
\* stores the notification: main stays where it is.
C13_ReleaseOnce ==
    /\ [](\A p \in Procs :
            /\ releases[p] <= 1
            /\ (pc[p] = "exited" /\ exitBy[p] = "normal") => releases[p] = 1)
    /\ [][\A p \in Procs :
            Fires(p) => /\ pc'[p] = pc[p]
                        /\ permit'[p]
                        /\ releases'[p] = releases[p]]_vars

\* Two calls have fired exit_notify, and the daemon ended by its exit path
\* after one release_lock.
C13_Witness ==
    \E p \in Procs :
        /\ pc[p] = "exited" /\ exitBy[p] = "normal" /\ releases[p] = 1
        /\ bus.total >= 2

\* C14: exit_notify is level-triggered.  A fire that comes while main is
\* not yet waiting in its select is stored, stays stored while main goes on
\* to the select, lets the select resolve at once, and from there main ends
\* by its exit path.
C14_FireBeforeWaitIsKept ==
    /\ [][\A p \in Procs :
            /\ Fires(p) => permit'[p]
            /\ (permit[p] /\ Served(p) /\ pc'[p] \in {"register", "sigsetup", "select"})
                  => permit'[p]]_vars
    /\ [](\A p \in Procs :
            (pc[p] = "select" /\ permit[p]) => ENABLED MainSelect(p))
    /\ \A p \in Procs :
          (pc[p] = "select" /\ permit[p]) ~> (pc[p] = "exited")

\* A close action fired exit_notify before main reached its select, and
\* main ended by its exit path and removed the lock file.
C14_Witness ==
    \E p \in Procs :
        /\ bus.at \in {"register", "sigsetup"} /\ bus.n = 1 /\ bus.fired = 1
        /\ pc[p] = "exited" /\ exitBy[p] = "normal" /\ token = Absent

\* The step is a secondary activation of the icon or a click on menu item 3.
CloseCall ==
    /\ CallStep
    /\ \/ bus'.method = "secondary_activate"
       \/ bus'.method = "event" /\ bus'.events = <<[id |-> 3, type |-> "clicked"]>>

\* C15: a secondary activation and a click on menu item 3 each issue the
\* close-window command for the managed address and nothing else, then fire
\* exit_notify once, whether the command succeeded or failed.
C15_CloseThenFire ==
    [][CloseCall =>
        /\ bus'.issued = <<CloseCmd(win.address)>>
        /\ bus'.trace = <<"closewindow", "notify_one">>
        /\ bus'.fired = 1
        /\ \A p \in Procs : Served(p) => permit'[p]]_vars

\* A secondary activation whose close command failed has fired exit_notify.
C15_Witness ==
    /\ bus.method = "secondary_activate" /\ bus.failed = 1 /\ bus.fired = 1
    /\ win.address \in Clients(comp)
    /\ permit[TheDaemon]

\* The step is a click on menu item 2, the restore action.
RestoreCall ==
    /\ CallStep
    /\ bus'.method = "event" /\ bus'.events = <<[id |-> 2, type |-> "clicked"]>>

\* C18: a call of a tray or menu method in which a compositor command
\* failed returns normally to its caller and leaves main where it is, alive;
\* a restore (menu item 2) stops at its first failed command and does not
\* fire exit_notify, so that no notification is stored by it; and the tray
\* server of a daemon that a failed command left serving takes the next
\* call.
C18_HandlerFailureIsSwallowed ==
    /\ [][(CallStep /\ bus'.failed > 0) =>
            /\ bus'.reply = "ok"
            /\ \A p \in Procs :
                  Served(p) => /\ pc'[p] = pc[p]
                               /\ exitBy'[p] = "none"
                               /\ releases'[p] = releases[p]
            /\ RestoreCall =>
                  /\ bus'.fired = 0
                  /\ bus'.failed = 1
                  /\ bus'.issued[Len(bus'.issued)].verb = bus'.trace[Len(bus'.trace)]
                  /\ Len(bus'.trace) = Len(bus'.issued)
                  /\ permit' = permit]_vars
    /\ [](\A p \in Procs :
            (bus.failed > 0 /\ Served(p) /\ bus.n < MaxCalls)
                => /\ ENABLED MenuEvent(p)
                   /\ ENABLED Activate(p)
                   /\ ENABLED SecondaryActivate(p))

\* The second command of a restore failed: nothing is stored in
\* exit_notify and main waits in its select.
C18_Witness ==
    /\ bus.method = "event" /\ bus.events = <<[id |-> 2, type |-> "clicked"]>>
    /\ Len(bus.issued) = 2 /\ bus.failed = 1 /\ bus.fired = 0
    /\ pc[TheDaemon] = "select" /\ ~permit[TheDaemon]
    /\ bus.reply = "ok"

(***************************************************************************)
(* The batched methods of the menu (claim C17).                            *)
(***************************************************************************)

\* The outcomes of one call of the single handler per event, first event
\* first; a process that the signal of a call has terminated takes no
\* further call.
RECURSIVE OneByOne(_, _, _)
OneByOne(h, events, handler) ==
    IF events = <<>> THEN {h}
    ELSE UNION {IF h1.killed THEN {h1}
                ELSE event(h1, events[Len(events)].id,
                           events[Len(events)].type, handler) :
                  h1 \in OneByOne(h, SubSeq(events, 1, Len(events) - 1),
                                  handler)}

\* The handler state h is what the step left behind in process p.
LeftBy(h, p) ==
    /\ comp' = h.comp
    /\ bus'.issued = h.issued /\ bus'.trace = h.trace
    /\ bus'.failed = h.failed /\ bus'.fired = h.fired
    /\ IF h.killed
          THEN pc'[p] = "exited" /\ exitBy'[p] = "sigusr1"
          ELSE /\ pc'[p] = pc[p]
               /\ permit'[p] = h.permit /\ pending'[p] = h.pending

\* The number of positions of the sequence s that hold x.
Count(s, x) == Cardinality({i \in 1..Len(s) : s[i] = x})

\* C17: a call of event_group leaves what one call of event per list
\* element, in list order, leaves; get_group_properties returns one entry
\* per requested id among 1, 2, 3, none for another id, and changes
\* nothing; an event for another id or of another type than "clicked", alone
\* or in a batch of such events, issues no command, fires nothing, changes
\* nothing and returns normally.
C17_BatchIsFoldOfSingle ==
    [][\A p \in Procs : (CallStep /\ Served(p)) =>
        /\ bus'.reply = "ok"
        /\ bus'.method = "event_group" =>
              \E h \in OneByOne(HStart(p), bus'.events, HasSigusr1Handler(p)) :
                  LeftBy(h, p)
        /\ bus'.method = "get_group_properties" =>
              /\ \A i \in 1..Len(bus'.props) : bus'.props[i] \in {1, 2, 3}
              /\ \A id \in {1, 2, 3} :
                    Count(bus'.props, id)
                       = Count([i \in 1..Len(bus'.events) |-> bus'.events[i].id], id)
              /\ LeftBy(HStart(p), p)
        /\ (/\ bus'.method \in {"event", "event_group"}
            /\ \A i \in 1..Len(bus'.events) : Ignored(bus'.events[i])) =>
              /\ bus'.issued = <<>> /\ bus'.fired = 0 /\ bus'.failed = 0
              /\ LeftBy(HStart(p), p)]_vars

\* A batch of an ignored event and a click on item 3 has issued the close
\* command and fired exit_notify.
C17_Witness ==
    /\ bus.method = "event_group"
    /\ bus.events = <<[id |-> 4, type |-> "clicked"], [id |-> 3, type |-> "clicked"]>>
    /\ bus.trace = <<"closewindow", "notify_one">>
    /\ permit[TheDaemon]

\* A batched query for the ids 0, 2 has returned the entry of 2 alone.
QueryWitness ==
    /\ bus.method = "get_group_properties"
    /\ Len(bus.events) = 2 /\ bus.events[1].id = 0 /\ bus.events[2].id = 2
    /\ bus.props = <<2>>

(***************************************************************************)
(* SpecListener: the toggles of one daemon call by call.  A toggle is the  *)
(* sequence of its hyprctl calls (two queries, then the commands of its    *)
(* case); it ends early at a call that fails and at a window not found.    *)
(* Main runs the first toggle itself, the listener task every later one.   *)
(***************************************************************************)

\* The most hyprctl calls one handle_window_toggle makes: its two queries
\* and the commands of its longest case.
MaxToggleCalls == 2 + Len(toggle_special_workspace(ManagedClass))

\* The toggles that have begun and have calls left to make.
InFlight == {i \in 1..lis.started : lis.left[i] > 0}

\* A toggle begins; it will make k calls, and it serves the signals that
\* arrived up to now.
Begin(k) ==
    lis' = [lis EXCEPT !.started = @ + 1, !.left = Append(@, k),
                       !.upto = Append(@, lis.arrived)]

\* main.rs 129-131: main awaits the toggle of a window that was there.
InitialToggle(p) ==
    /\ pc[p] = "place_existing"
    /\ lis.started = 0
    /\ \E k \in 1..MaxToggleCalls : Begin(k)
    /\ UNCHANGED <<procVars, compVars, trayVars, launch_timeout, attempt, failedPolls,
                   startVars>>

\* The toggle main awaited has returned; its result is dropped.
InitialToggleReturns(p) ==
    /\ pc[p] = "place_existing"
    /\ lis.started > 0 /\ InFlight = {}
    /\ Goto(p, "connect")
    /\ UNCHANGED <<token, old_pid, fdOnPath, exitBy, sigSent, hyprUsed,
                   pending, permit, intr, pollOn, lastPoll>>
    /\ UNCHANGED <<releases, compVars, trayVars, stepVars, startVars>>

\* A SIGUSR1 reaches the process, from the acquire_lock of another
\* invocation or from the toggle action of its tray: it is queued in the
\* stream when the process has the handler, and fatal when it has not.
Sigusr1(p) ==
    /\ Alive(p)
    /\ lis.arrived < MaxSignals
    /\ lis' = [lis EXCEPT !.arrived = @ + 1,
                          !.queued = IF InFlight # {} THEN @ + 1 ELSE @]
    /\ IF HasSigusr1Handler(p)
          THEN /\ pending' = [pending EXCEPT ![p] = TRUE]
               /\ UNCHANGED <<pc, old_pid, fdOnPath, exitBy, permit, intr,
                              pollOn>>
          ELSE Gone(p, "sigusr1")
    /\ UNCHANGED <<token, sigSent, hyprUsed, lastPoll, releases, compVars,
                   trayVars, launch_timeout, attempt, failedPolls,
                   startVars>>

\* A listener that gives every signal a task of its own: recv returns
\* while a toggle is in flight.
ListenerSpawnsToggle(p) ==
    /\ pc[p] = "select"
    /\ pending[p]
    /\ lis.started < MaxToggles
    /\ pending' = [pending EXCEPT ![p] = FALSE]
    /\ \E k \in 1..MaxToggleCalls : Begin(k)
    /\ UNCHANGED <<token, pc, old_pid, fdOnPath, exitBy, sigSent, hyprUsed,
                   permit, intr, pollOn, lastPoll, releases, compVars,
                   trayVars, launch_timeout, attempt, failedPolls,
                   startVars>>

\* main.rs 231-238: the listener task is in sigusr1.recv() only when the
\* toggle it awaited has returned; recv takes the queued signal and the
\* next toggle begins.
ListenerRecv(p) ==
    /\ pc[p] = "select"
    /\ pending[p]
    /\ InFlight = {}
    /\ lis.started < MaxToggles
    /\ pending' = [pending EXCEPT ![p] = FALSE]
    /\ \E k \in 1..MaxToggleCalls : Begin(k)
    /\ UNCHANGED <<token, pc, old_pid, fdOnPath, exitBy, sigSent, hyprUsed,
                   permit, intr, pollOn, lastPoll, releases, compVars,
                   trayVars, launch_timeout, attempt, failedPolls,
                   startVars>>

\* A toggle in flight makes its next hyprctl call.
ToggleIssues(p) ==
    /\ Alive(p)
    /\ \E i \in InFlight :
          lis' = [lis EXCEPT !.left[i] = @ - 1, !.calls = Append(@, i)]
    /\ hyprUsed' = [hyprUsed EXCEPT ![p] = TRUE]
    /\ UNCHANGED <<token, pc, old_pid, fdOnPath, exitBy, sigSent, pending,
                   permit, intr, pollOn, lastPoll, releases, compVars,
                   trayVars, launch_timeout, attempt, failedPolls,
                   startVars>>

\* The daemon has claimed the lock and found its window among the clients;
\* the compositor is left out, as in Spec.
InitListener ==
    /\ token = TheDaemon
    /\ pc = [p \in Procs |-> IF p = TheDaemon THEN "place_existing" ELSE "idle"]
    /\ old_pid = [p \in Procs |-> 0]
    /\ fdOnPath = [p \in Procs |-> FALSE]
    /\ exitBy = [p \in Procs |-> "none"]
    /\ sigSent = [p \in Procs |-> 0]
    /\ hyprUsed = [p \in Procs |-> p = TheDaemon]
    /\ pending = [p \in Procs |-> FALSE]
    /\ permit = [p \in Procs |-> FALSE]
    /\ intr = [p \in Procs |-> FALSE]
    /\ pollOn = [p \in Procs |-> FALSE]
    /\ lastPoll = [p \in Procs |-> "none"]
    /\ releases = [p \in Procs |-> 0]
    /\ comp = [ws |-> [a \in Addrs |-> Closed], active |-> 1, shown |-> 0,
               focus |-> 0, centered |-> {}, top |-> 0]
    /\ classOf = [a \in Addrs |-> ManagedClass]
    /\ tg = NoToggle
    /\ win = NoWindow
    /\ bus = NoCall
    /\ lis = NoListener
    /\ launch_timeout = <<>>
    /\ attempt = 0
    /\ failedPolls = 0
    /\ launch_in_background = <<>>
    /\ place = NoPlacement
    /\ watch = NoWatch

NextListener ==
    \E p \in Procs :
        \/ InitialToggle(p) \/ InitialToggleReturns(p)
        \/ Connect(p) \/ Register(p) \/ SignalSetup(p)
        \/ Sigusr1(p) \/ ListenerRecv(p) \/ ToggleIssues(p)

SpecListener == InitListener /\ [][NextListener]_vars

\* C16: the hyprctl calls of the toggles of a daemon appear toggle by
\* toggle, every call of one toggle before the first call of the next, in
\* the order in which the toggles began; at most one toggle is in flight;
\* and the toggles serve the signals in the order of their arrival: each
\* toggle of the listener begins after a signal that arrived later than
\* every signal served by the toggle before it.
C16_TogglesDoNotInterleave ==
    /\ \A i, j \in 1..Len(lis.calls) : i < j => lis.calls[i] <= lis.calls[j]
    /\ Cardinality(InFlight) <= 1
    /\ \A i \in InFlight : i = lis.started
    /\ \A i \in 2..lis.started :
          /\ lis.upto[i - 1] < lis.upto[i]
          /\ lis.upto[i] <= lis.arrived

\* Signals arrived while a toggle was in flight, and MaxToggles toggles of
\* two calls or more have run to their end.
C16_Witness ==
    /\ lis.queued >= 2
    /\ lis.started = MaxToggles
    /\ InFlight = {}
    /\ \A i \in 1..lis.started :
          Cardinality({n \in 1..Len(lis.calls) : lis.calls[n] = i}) >= 2

(***************************************************************************)
(* SpecLaunch: the daemon that found no window of its class, from the      *)
(* launch of the application on, with the launch-wait loop poll by poll    *)
(* under every configured launch_timeout up to MaxTimeout and under none.  *)
(***************************************************************************)

\* app_config.launch_timeout.unwrap_or(10)
timeout_secs == IF launch_timeout = <<>> THEN 10 ELSE launch_timeout[1]

\* (timeout_secs * 2).max(10) as usize; for the timeouts up to MaxTimeout
\* the product stays far below the 64 bits of its type.
max_attempts == IF timeout_secs * 2 >= 10 THEN timeout_secs * 2 ELSE 10

\* The outcome of one iteration of the loop in process p (a found window
\* breaks the loop; the last iteration without one leads to release_lock
\* and exit(1); any other leaves main in the loop).
Polled(p, found) ==
    /\ attempt' = attempt + 1
    /\ hyprUsed' = [hyprUsed EXCEPT ![p] = TRUE]
    /\ IF found
          THEN /\ Goto(p, "place_new")
               /\ UNCHANGED <<exitBy, releases>>
          ELSE IF attempt + 1 = max_attempts
                  THEN /\ Goto(p, "rel_exists")
                       /\ exitBy' = [exitBy EXCEPT ![p] = "timeout"]
                       /\ releases' = [releases EXCEPT ![p] = @ + 1]
                  ELSE UNCHANGED <<pc, exitBy, releases>>
    /\ UNCHANGED <<old_pid, fdOnPath, pending, permit, intr, pollOn>>

\* An iteration whose failed query ends main with the error, as a query
\* with the ? operator would.
WaitPollAbortsOnError(p) ==
    /\ pc[p] = "wait"
    /\ attempt < max_attempts
    /\ \E r \in {"failed", "none", "found"} :
          /\ failedPolls' = IF r = "failed" THEN failedPolls + 1 ELSE failedPolls
          /\ IF r = "failed"
                THEN /\ Gone(p, "clients")
                     /\ attempt' = attempt + 1
                     /\ hyprUsed' = [hyprUsed EXCEPT ![p] = TRUE]
                     /\ UNCHANGED releases
                ELSE Polled(p, r = "found")
    /\ UNCHANGED <<token, sigSent, lastPoll, compVars, trayVars, lis,
                   launch_timeout, startVars>>

\* main.rs 86-100: one iteration of the launch-wait loop: the sleep of
\* 500 ms, the client-list query (a failed query finds nothing), the search
\* for the class.
WaitPoll(p) ==
    /\ pc[p] = "wait"
    /\ attempt < max_attempts
    /\ \E r \in {"failed", "none", "found"} :
          /\ failedPolls' = IF r = "failed" THEN failedPolls + 1 ELSE failedPolls
          /\ Polled(p, r = "found")
    /\ UNCHANGED <<token, sigSent, lastPoll, compVars, trayVars, lis,
                   launch_timeout, startVars>>

\* The configurations: launch_timeout is not set, or is set to T seconds.
Timeouts == {<<>>} \cup {<<T>> : T \in 0..MaxTimeout}

\* The daemon has claimed the lock and found no window of its class among
\* the clients.
InitLaunch ==
    /\ token = TheDaemon
    /\ pc = [p \in Procs |-> IF p = TheDaemon THEN "launch" ELSE "idle"]
    /\ old_pid = [p \in Procs |-> 0]
    /\ fdOnPath = [p \in Procs |-> FALSE]
    /\ exitBy = [p \in Procs |-> "none"]
    /\ sigSent = [p \in Procs |-> 0]
    /\ hyprUsed = [p \in Procs |-> p = TheDaemon]
    /\ pending = [p \in Procs |-> FALSE]
    /\ permit = [p \in Procs |-> FALSE]
    /\ intr = [p \in Procs |-> FALSE]
    /\ pollOn = [p \in Procs |-> FALSE]
    /\ lastPoll = [p \in Procs |-> "none"]
    /\ releases = [p \in Procs |-> 0]
    /\ comp = [ws |-> [a \in Addrs |-> Closed], active |-> 1, shown |-> 0,
               focus |-> 0, centered |-> {}, top |-> 0]
    /\ classOf = [a \in Addrs |-> ManagedClass]
    /\ tg = NoToggle
    /\ win = NoWindow
    /\ bus = NoCall
    /\ lis = NoListener
    /\ launch_timeout \in Timeouts
    /\ attempt = 0
    /\ failedPolls = 0
    /\ launch_in_background = <<>>
    /\ place = NoPlacement
    /\ watch = NoWatch

NextLaunch ==
    \E p \in Procs :
        \/ Launch(p) \/ WaitPoll(p)
        \/ RelExists(p) \/ RelRead(p) \/ RelRemove(p)

SpecLaunch == InitLaunch /\ [][NextLaunch]_vars

\* The sleep of an iteration ends and its query returns, and release_lock
\* runs to its end.
FairLaunch ==
    /\ SpecLaunch
    /\ \A p \in Procs : WF_vars(WaitPoll(p) \/ ExitPath(p))

\* The step is an iteration of the launch-wait loop.
PollStep == attempt' # attempt

\* C19: main leaves the launch-wait loop: with a window found it goes on
\* to the placement, and after max_attempts iterations without one, a failed
\* query counted like an empty answer, it calls release_lock once and exits
\* with a status other than 0, the lock file no longer holding its pid;
\* no iteration ends main in another way, and a process on that way out
\* has served no tray, installed no signal stream and spawned no task.
C19_LaunchWaitTerminates ==
    /\ \A p \in Procs :
          (pc[p] = "wait") ~>
              (pc[p] = "place_new" \/ (pc[p] = "exited" /\ exitBy[p] = "timeout"))
    /\ [][\A p \in Procs : (PollStep /\ pc[p] = "wait") =>
            /\ attempt' = attempt + 1 /\ attempt' <= max_attempts
            /\ \/ pc'[p] = "place_new" /\ exitBy'[p] = "none"
               \/ /\ pc'[p] = "wait" /\ attempt' < max_attempts
                  /\ exitBy'[p] = "none"
               \/ /\ pc'[p] = "rel_exists" /\ attempt' = max_attempts
                  /\ exitBy'[p] = "timeout" /\ ExitCode("timeout") # 0
                  /\ releases'[p] = releases[p] + 1]_vars
    /\ [](\A p \in Procs : exitBy[p] = "timeout" =>
            /\ pc[p] \in RelPcs \cup {"exited"}
            /\ attempt = max_attempts
            /\ releases[p] = 1
            /\ pc[p] = "exited" => token # p
            /\ ~Served(p) /\ ~HasSigusr1Handler(p) /\ ~pollOn[p]
            /\ bus.n = 0 /\ lis.started = 0)

\* Every iteration has run, some with a failed query, and main has
\* released the lock and exited by the timeout.
C19_Witness ==
    \E p \in Procs :
        /\ pc[p] = "exited" /\ exitBy[p] = "timeout"
        /\ attempt = max_attempts /\ failedPolls >= 2 /\ failedPolls < attempt
        /\ token = Absent /\ releases[p] = 1

\* C20: with a launch_timeout of T seconds (10 when none is set) the loop
\* runs at most 2*T iterations of 500 ms.
C20_AtMostTwoPollsPerSecond == attempt <= 2 * timeout_secs

\* The bound of C20 holds for the timeouts of five seconds and more, and
\* for every timeout the loop runs at most max_attempts iterations.
C20_HoldsFromFiveSeconds ==
    /\ timeout_secs >= 5 => attempt <= 2 * timeout_secs
    /\ attempt <= max_attempts

(***************************************************************************)
(* The failed query of the liveness task (claim C22).                      *)
(***************************************************************************)

\* The step is a poll of the liveness task of p whose query failed.
FailedPoll(p) ==
    /\ pollOn[p]
    /\ lastPoll'[p] = "failed"
    /\ <<lastPoll[p], permit[p], pollOn[p]>> # <<lastPoll'[p], permit'[p], pollOn'[p]>>

\* C22 as stated: a poll whose query failed is a no-op, and the task keeps
\* polling.
C22_FailedPollIsNoOp ==
    [][\A p \in Procs :
         FailedPoll(p) => pollOn'[p] /\ permit'[p] = permit[p]]_vars

\* C22 as amended: a poll whose query failed does not end the process
\* where it stands, but it ends the task and stores the exit notification;
\* main then leaves by its exit path, calling release_lock once, and the
\* process ends with status 0 and without its pid in the lock file.
C22_FailedPollEndsDaemonOrderly ==
    /\ [][\A p \in Procs :
            FailedPoll(p) => /\ pc'[p] = pc[p] /\ exitBy'[p] = exitBy[p]
                             /\ releases'[p] = releases[p]
                             /\ permit'[p] /\ ~pollOn'[p]]_vars
    /\ [](\A p \in Procs :
            lastPoll[p] = "failed" =>
                /\ pc[p] = "select" /\ exitBy[p] = "none"
                /\ permit[p] /\ ~pollOn[p])
    /\ \A p \in Procs :
          (lastPoll[p] = "failed") ~>
              (/\ pc[p] = "exited" /\ exitBy[p] = "normal"
               /\ ExitCode(exitBy[p]) = 0
               /\ releases[p] = 1 /\ token # p)

\* The query of a poll failed although the window is there and no call of
\* the tray has fired: the task has stopped and the notification is stored.
C22_Witness ==
    \E p \in Procs :
        /\ lastPoll[p] = "failed" /\ win.address \in Clients(comp)
        /\ pc[p] = "select" /\ permit[p] /\ ~pollOn[p]
        /\ bus.total = 0

(***************************************************************************)
(* The commands of one toggle (claim C24).                                 *)
(***************************************************************************)

\* The verbs of a sequence of commands.
Verbs(cmds) == [i \in 1..Len(cmds) |-> cmds[i].verb]

\* The order of the commands of each case, as the claim gives it.
OrderOf(case) ==
    CASE case = "special" ->
             <<"togglespecialworkspace", "centerwindow", "movetoworkspace +0",
               "alterzorder top">>
      [] case = "current" ->
             <<"focuswindow initialclass", "movetoworkspacesilent special">>
      [] case = "other" ->
             <<"movetoworkspace +0", "centerwindow", "alterzorder top">>
      [] OTHER -> <<>>

\* C24: a toggle that selected a case issues the commands of the case in
\* their order, from the first on; it returns Ok exactly when every
\* command succeeded, and then the compositor is where the whole sequence
\* takes it; when it returns an error the command issued last is the one
\* that failed, no command after it was issued, and the compositor is where
\* the commands before it take it.
C24_FixedOrderAbortOnFailure ==
    [][(ToggleStep /\ tg'.case \in {"special", "current", "other"}) =>
        LET n == Len(tg'.issued)
            order == OrderOf(tg'.case)
        IN  /\ n >= 1 /\ n <= Len(order)
            /\ Verbs(tg'.issued) = SubSeq(order, 1, n)
            /\ \A i \in 1..n :
                  /\ tg'.issued[i].class \in {"", ManagedClass}
                  /\ tg'.issued[i].addr \in {0, tg'.found}
            /\ IF tg'.result = "ok"
                  THEN /\ n = Len(order)
                       /\ comp' \in Run(tg'.issued, {comp})
                  ELSE /\ tg'.result = "err"
                       /\ comp' \in Run(SubSeq(tg'.issued, 1, n - 1), {comp})]_vars

\* The focus command of the active-workspace case failed: the toggle
\* returned an error, the silent move was not issued and the window is
\* where it was.
C24_Witness ==
    /\ tg.case = "current" /\ tg.result = "err"
    /\ Verbs(tg.issued) = <<"focuswindow initialclass">>
    /\ comp.ws[tg.found] = tg.a

(***************************************************************************)
(* The window a toggle acts on (claim C26).                                *)
(***************************************************************************)

\* The step moved, centered or raised window b.
ActedOn(b) ==
    \/ comp'.ws[b] # comp.ws[b]
    \/ b \in comp'.centered /\ b \notin comp.centered
    \/ comp'.top = b /\ comp.top # b

\* C26: the window a toggle of the daemon finds is the window of the
\* managed address, and the commands of the toggle act on that window: no
\* toggle moves, centers or raises another window.
C26_ToggleActsOnManagedWindow ==
    [][(ToggleStep /\ tg'.issued # <<>>) =>
        /\ tg'.found = win.address
        /\ \A b \in Addrs \ {win.address} : ~ActedOn(b)]_vars

\* What the code does keep of C26: the commands that name an address name
\* the address the toggle found, which is the managed one while no other
\* client has the class; and the toggle of a window that is on a workspace
\* (the cases w = a and w # a with a move that succeeded) moves no other
\* window.
C26_AddressedCommandsOnly ==
    [][(ToggleStep /\ tg'.issued # <<>>) =>
        /\ tg'.found = win.address
        /\ \A i \in 1..Len(tg'.issued) : tg'.issued[i].addr \in {0, win.address}
        /\ tg'.case \in {"current", "other"} =>
              \A b \in Addrs \ {win.address} : comp'.ws[b] = comp.ws[b]]_vars

(***************************************************************************)
(* Requests and toggles (claim C23).                                       *)
(***************************************************************************)

\* The listener of p waits in recv with nothing queued and no toggle in
\* flight: every signal that arrived has been taken.
ListenerIdle(p) == pc[p] = "select" /\ ~pending[p] /\ InFlight = {}

\* C23: every signal that reached the running daemon has made one toggle
\* run: when the listener is idle the toggles that began, the first one of
\* main aside, are as many as the signals that arrived.
C23_OneTogglePerRequest ==
    \A p \in Procs : ListenerIdle(p) => lis.started = 1 + lis.arrived

\* What the code does keep of C23: no toggle without a signal, no signal
\* left unserved once the listener is idle, and a signal that arrives
\* while none is queued gets a toggle of its own.
C23_EverySignalServed ==
    /\ \A p \in Procs :
          ListenerIdle(p) => /\ lis.started <= 1 + lis.arrived
                             /\ lis.arrived > 0 => lis.started > 1
                             /\ lis.upto[lis.started] = lis.arrived
    /\ \A i \in 2..lis.started : lis.upto[i - 1] < lis.upto[i]

(***************************************************************************)
(* SpecStart: the daemon from the capture of its window to its tray, on    *)
(* the compositor: the window was there or was launched, wherever it is    *)
(* placed, and main places it; then the menu takes one call.               *)
(***************************************************************************)

\* app_config.launch_in_background.unwrap_or(false)
InBackground == launch_in_background = <<TRUE>>

\* main.rs 129-131 with the error of the toggle returned by main.
PlaceExistingAbortsOnError(p) ==
    /\ pc[p] = "place_existing"
    /\ ToggleCall
    /\ place' = [mode |-> "toggle", issued |-> tg'.issued,
                 failed |-> IF tg'.result = "err" THEN 1 ELSE 0]
    /\ hyprUsed' = [hyprUsed EXCEPT ![p] = TRUE]
    /\ IF tg'.result = "err"
          THEN Gone(p, "clients")
          ELSE /\ Goto(p, "connect")
               /\ UNCHANGED <<old_pid, fdOnPath, exitBy, pending, permit,
                              intr, pollOn>>
    /\ UNCHANGED <<token, sigSent, lastPoll, releases, classOf, trayVars,
                   stepVars, launch_in_background, watch>>

\* main.rs 129-131: the window was there: one handle_window_toggle, its
\* result dropped.
PlaceExisting(p) ==
    /\ pc[p] = "place_existing"
    /\ ToggleCall
    /\ place' = [mode |-> "toggle", issued |-> tg'.issued,
                 failed |-> IF tg'.result = "err" THEN 1 ELSE 0]
    /\ hyprUsed' = [hyprUsed EXCEPT ![p] = TRUE]
    /\ Goto(p, "connect")
    /\ UNCHANGED <<token, old_pid, fdOnPath, exitBy, sigSent, pending, permit,
                   intr, pollOn, lastPoll, releases, classOf, trayVars,
                   stepVars, launch_in_background, watch>>

\* The compositor states after a dispatch whose result is dropped: the
\* command took effect, or it failed.
Dropped(S, cmd, ok) == IF ok THEN UNION {Exec(c, cmd) : c \in S} ELSE S

\* main.rs 132-146: the window was launched: with launch_in_background the
\* focus command and the silent move to the hidden workspace, the result
\* of each dropped; without it nothing.
PlaceNew(p) ==
    /\ pc[p] = "place_new"
    /\ IF InBackground
          THEN \E ok1, ok2 \in BOOLEAN :
                  /\ comp' \in Dropped(Dropped({comp}, FocusAddrCmd(win.address), ok1),
                                        MoveSilentCmd(ManagedClass, win.address), ok2)
                  /\ place' = [mode |-> "background",
                               issued |-> <<FocusAddrCmd(win.address),
                                            MoveSilentCmd(ManagedClass, win.address)>>,
                               failed |-> (IF ok1 THEN 0 ELSE 1)
                                             + (IF ok2 THEN 0 ELSE 1)]
                  /\ hyprUsed' = [hyprUsed EXCEPT ![p] = TRUE]
          ELSE /\ comp' = comp
               /\ place' = [mode |-> "keep", issued |-> <<>>, failed |-> 0]
               /\ UNCHANGED hyprUsed
    /\ Goto(p, "connect")
    /\ UNCHANGED <<token, old_pid, fdOnPath, exitBy, sigSent, pending, permit,
                   intr, pollOn, lastPoll, releases, classOf, tg, trayVars,
                   stepVars, launch_in_background, watch>>

\* main.rs 71-74 and 89-94: the window main captured is the first client
\* of the configured class, with the workspace it is on at that moment;
\* is_newly_launched tells whether it was there or was launched.  (The
\* active workspace is called 1.)
InitStart ==
    /\ token = TheDaemon
    /\ \E at \in {"place_existing", "place_new"} :
          pc = [p \in Procs |-> IF p = TheDaemon THEN at ELSE "idle"]
    /\ old_pid = [p \in Procs |-> 0]
    /\ fdOnPath = [p \in Procs |-> FALSE]
    /\ exitBy = [p \in Procs |-> "none"]
    /\ sigSent = [p \in Procs |-> 0]
    /\ hyprUsed = [p \in Procs |-> p = TheDaemon]
    /\ pending = [p \in Procs |-> FALSE]
    /\ permit = [p \in Procs |-> FALSE]
    /\ intr = [p \in Procs |-> FALSE]
    /\ pollOn = [p \in Procs |-> FALSE]
    /\ lastPoll = [p \in Procs |-> "none"]
    /\ releases = [p \in Procs |-> 0]
    /\ classOf \in [Addrs -> Classes]
    /\ comp \in {c \in Placements : c.active = 1 /\ c.shown \in {0, HiddenWs}}
    /\ FindWindow(comp, ManagedClass) # 0
    /\ win = [address |-> FindWindow(comp, ManagedClass),
              workspace |-> comp.ws[FindWindow(comp, ManagedClass)]]
    /\ tg = NoToggle
    /\ bus = [NoCall EXCEPT !.n = MaxCalls - 1]
    /\ lis = NoListener
    /\ launch_timeout = <<>>
    /\ attempt = 0
    /\ failedPolls = 0
    /\ launch_in_background \in {<<>>, <<TRUE>>, <<FALSE>>}
    /\ place = NoPlacement
    /\ watch = NoWatch

NextStart ==
    \E p \in Procs :
        \/ PlaceExisting(p) \/ PlaceNew(p)
        \/ Connect(p) \/ Register(p) \/ MenuEvent(p)

SpecStart == InitStart /\ [][NextStart]_vars

\* The step is the initial placement of main.
PlaceStep == place'.mode # place.mode

\* C25: main places its window once.  A window that was there gets one
\* handle_window_toggle, and main goes on to its tray whether the toggle
\* returned Ok or an error; a launched window with launch_in_background
\* gets the focus command and then the silent move to the hidden workspace
\* of the class, both naming its address, and is in that workspace when
\* both succeeded; a launched window without it gets no command.
C25_InitialPlacement ==
    /\ [][\A p \in Procs : (PlaceStep /\ Alive(p)) =>
            /\ place.mode = "none"
            /\ pc'[p] = "connect" /\ exitBy'[p] = "none"
            /\ pc[p] = "place_existing" =>
                  /\ place'.mode = "toggle"
                  /\ tg'.n = tg.n + 1
                  /\ place'.issued = tg'.issued
                  /\ tg'.result \in {"ok", "err"}
            /\ (pc[p] = "place_new" /\ launch_in_background = <<TRUE>>) =>
                  /\ place'.mode = "background"
                  /\ tg' = tg
                  /\ Verbs(place'.issued)
                        = <<"focuswindow address", "movetoworkspacesilent special">>
                  /\ \A i \in 1..2 : place'.issued[i].addr = win.address
                  /\ place'.issued[2].class = ManagedClass
                  /\ place'.failed = 0 => comp'.ws[win.address] = HiddenWs
            /\ (pc[p] = "place_new" /\ launch_in_background \in {<<>>, <<FALSE>>}) =>
                  /\ place'.mode = "keep"
                  /\ place'.issued = <<>>
                  /\ tg' = tg /\ comp' = comp]_vars
    /\ [](tg.n <= 1 /\ (place.mode # "toggle" => tg.n = 0))

\* The toggle of a window that was there returned an error after its first
\* command, and main has built its connection.
C25_Witness ==
    /\ place.mode = "toggle" /\ place.failed = 1 /\ Len(place.issued) = 2
    /\ pc[TheDaemon] = "register"

(***************************************************************************)
(* The workspace of the restore action (claim C27).                        *)
(***************************************************************************)

\* C27: the workspace the restore action names is the one in window_info,
\* window_info does not change, and that workspace is an ordinary one, not
\* a hidden one.
C27_RestoreWorkspaceOrdinary ==
    /\ [][win' = win]_vars
    /\ [][RestoreCall =>
            /\ bus'.issued[1] = MoveToCmd(win.workspace, win.address)
            /\ bus'.issued[1].ws >= 0]_vars

\* What the code does keep of C27: the restore action names the workspace
\* and the address captured at the start, which do not change; the
\* workspace is ordinary when the window was on an ordinary workspace at
\* its capture.
C27_RestoreWorkspaceStatic ==
    /\ [][win' = win]_vars
    /\ [][RestoreCall =>
            bus'.issued[1] = MoveToCmd(win.workspace, win.address)]_vars

(***************************************************************************)
(* SpecWatch: the re-registration task of a daemon whose first             *)
(* registration succeeded.  watch records the state of the task, the owner *)
(* changes waiting in its stream, the number of changes the bus signalled, *)
(* the number of those in the stream that named the watcher with a new     *)
(* owner, the re-announce attempts made and failed, and what the task did  *)
(* with the last change it took.                                           *)
(***************************************************************************)

\* The NameOwnerChanged signals: of the watcher's name or of another, with
\* a new owner or without.
Changes == [name : {"watcher", "other"}, new_owner : BOOLEAN]

\* args.name() == DBUS_WATCHER_NAME && args.new_owner().is_some()
TrayAppeared(e) == e.name = "watcher" /\ e.new_owner

\* main.rs 195-209: the task, first run when main waits in its select,
\* builds its proxy and its stream; on an error of either it returns.
WatchSetup(p) ==
    /\ pc[p] = "select"
    /\ watch.task = "setup"
    /\ \E ok \in BOOLEAN :
          watch' = [watch EXCEPT !.task = IF ok THEN "watching" ELSE "ended"]
    /\ UNCHANGED <<procVars, compVars, trayVars, stepVars,
                   launch_in_background, place>>

\* The bus signals an owner change; the stream of a task that watches
\* keeps it until the task takes it.
OwnerChanged ==
    /\ watch.changes < MaxChanges
    /\ \E e \in Changes :
          watch' = [watch EXCEPT
                       !.changes = @ + 1,
                       !.queue = IF watch.task = "watching"
                                    THEN Append(@, e) ELSE @,
                       !.due = IF watch.task = "watching" /\ TrayAppeared(e)
                                  THEN @ + 1 ELSE @]
    /\ UNCHANGED <<procVars, compVars, trayVars, stepVars,
                   launch_in_background, place>>

\* What the task does with the change e, the re-announce succeeding or
\* not, and whether a failed re-announce ends the task.
Handled(e, ok, ends) ==
    [watch EXCEPT
        !.queue = Tail(@),
        !.attempts = IF TrayAppeared(e) THEN @ + 1 ELSE @,
        !.failed = IF TrayAppeared(e) /\ ~ok THEN @ + 1 ELSE @,
        !.last = IF ~TrayAppeared(e) THEN "ignored"
                 ELSE IF ok THEN "reannounced" ELSE "failed",
        !.task = IF TrayAppeared(e) /\ ~ok /\ ends THEN "ended" ELSE @]

\* The loop of the task returning at a re-announce that failed.
ReregisterStopsOnError(p) ==
    /\ pc[p] = "select"
    /\ watch.task = "watching"
    /\ watch.queue # <<>>
    /\ \E ok \in BOOLEAN : watch' = Handled(Head(watch.queue), ok, TRUE)
    /\ UNCHANGED <<procVars, compVars, trayVars, stepVars,
                   launch_in_background, place>>

\* main.rs 213-223: one iteration of the loop of the task: the next change
\* of the stream; for the watcher's name with a new owner the delay and
\* register_with_watcher, its error printed.
Reregister(p) ==
    /\ pc[p] = "select"
    /\ watch.task = "watching"
    /\ watch.queue # <<>>
    /\ \E ok \in BOOLEAN : watch' = Handled(Head(watch.queue), ok, FALSE)
    /\ UNCHANGED <<procVars, compVars, trayVars, stepVars,
                   launch_in_background, place>>

\* The daemon has registered its icon and spawned the task.
InitWatch ==
    /\ token = TheDaemon
    /\ pc = [p \in Procs |-> IF p = TheDaemon THEN "sigsetup" ELSE "idle"]
    /\ old_pid = [p \in Procs |-> 0]
    /\ fdOnPath = [p \in Procs |-> FALSE]
    /\ exitBy = [p \in Procs |-> "none"]
    /\ sigSent = [p \in Procs |-> 0]
    /\ hyprUsed = [p \in Procs |-> p = TheDaemon]
    /\ pending = [p \in Procs |-> FALSE]
    /\ permit = [p \in Procs |-> FALSE]
    /\ intr = [p \in Procs |-> FALSE]
    /\ pollOn = [p \in Procs |-> FALSE]
    /\ lastPoll = [p \in Procs |-> "none"]
    /\ releases = [p \in Procs |-> 0]
    /\ comp = [ws |-> [a \in Addrs |-> Closed], active |-> 1, shown |-> 0,
               focus |-> 0, centered |-> {}, top |-> 0]
    /\ classOf = [a \in Addrs |-> ManagedClass]
    /\ tg = NoToggle
    /\ win = NoWindow
    /\ bus = NoCall
    /\ lis = NoListener
    /\ launch_timeout = <<>>
    /\ attempt = 0
    /\ failedPolls = 0
    /\ launch_in_background = <<>>
    /\ place = NoPlacement
    /\ watch = [NoWatch EXCEPT !.task = "setup"]

NextWatch ==
    \/ \E p \in Procs :
          \/ SignalSetup(p) \/ WatchSetup(p) \/ Reregister(p)
          \/ PollTick(p) \/ CtrlC(p)
          \/ MainSelect(p) \/ RelExists(p) \/ RelRead(p) \/ RelRemove(p)
    \/ OwnerChanged

SpecWatch == InitWatch /\ [][NextWatch]_vars

\* The runtime runs the task when a change waits in its stream.
FairWatch ==
    /\ SpecWatch
    /\ \A p \in Procs : WF_vars(Reregister(p))

\* The step is an iteration of the loop of the task.
WatchStep == watch'.queue # watch.queue /\ Len(watch'.queue) < Len(watch.queue)

\* The changes waiting in the stream that name the watcher with a new owner.
Waiting == Cardinality({i \in 1..Len(watch.queue) : TrayAppeared(watch.queue[i])})

\* C21: of the owner changes that reach the stream of the task, each that
\* names the watcher with a new owner gets one re-announce attempt and no
\* other gets one, the changes taken first in first out; an attempt, failed
\* or not, stores no exit notification, ends neither main nor the task;
\* and while main waits in its select every change in the stream is taken.
C21_OneAttemptPerNewOwner ==
    /\ [](watch.attempts + Waiting = watch.due /\ watch.failed <= watch.attempts)
    /\ [][WatchStep =>
            /\ watch'.queue = Tail(watch.queue)
            /\ watch'.attempts
                  = watch.attempts + (IF TrayAppeared(Head(watch.queue)) THEN 1 ELSE 0)
            /\ watch'.task = "watching"
            /\ permit' = permit /\ pc' = pc /\ exitBy' = exitBy
            /\ pollOn' = pollOn /\ releases' = releases]_vars
    /\ (watch.task = "watching" /\ watch.queue # <<>>)
          ~> (watch.queue = <<>> \/ pc[TheDaemon] # "select")

\* A re-announce failed, and the task has handled a later owner change of
\* the watcher with a re-announce that succeeded; main waits in its select
\* with no exit notification stored.
C21_Witness ==
    /\ watch.failed = 1 /\ watch.attempts = 2 /\ watch.last = "reannounced"
    /\ watch.changes = MaxChanges /\ watch.due = 2 /\ watch.queue = <<>>
    /\ watch.task = "watching"
    /\ pc[TheDaemon] = "select" /\ ~permit[TheDaemon]

=============================================================================
